---------------------- MODULE AchievementNotifications ----------------------
(***************************************************************************)
(* Delivery of the notifications about granted achievements to the tabs of *)
(* one employee: a row is written with the grant (or later by the repair   *)
(* of the worker, when the grant was made by a process of the release      *)
(* before), a tab claims it for 90 seconds with its token, shows it and    *)
(* acknowledges it with the same token.                                    *)
(***************************************************************************)
EXTENDS Naturals, FiniteSets

CONSTANTS
  Events,        \* ids of grant and upgrade events
  Secret,        \* those of secret definitions
  Tabs,
  MaxLost        \* bound on lost answers and closed tabs

NoTab == "none"

VARIABLES
  granted,       \* events recorded after the notification boundary
  delivery,      \* AchievementNotification: "none", "unread", "read"
  revoked,       \* events whose award is no longer active
  claim_token,   \* the tab whose token the row holds
  leased,        \* rows whose claim has not expired
  tab,           \* what each tab does, and with which event
  shown,         \* tabs that showed the event
  expired,       \* rows whose lease ran out once
  lost

vars == <<granted, delivery, revoked, claim_token, leased, tab, shown, expired, lost>>

Closed == [stage |-> "idle", event |-> 0]

Init ==
  /\ granted = {}
  /\ delivery = [e \in Events |-> "none"]
  /\ revoked = {}
  /\ claim_token = [e \in Events |-> NoTab]
  /\ leased = {}
  /\ tab = [t \in Tabs |-> Closed]
  /\ shown = [e \in Events |-> {}]
  /\ expired = {}
  /\ lost = 0

(* visible: a secret achievement only while it is active.                  *)
Visible(e) == ~(e \in Secret /\ e \in revoked)

(* grant: the event and its notification in one transaction; the process   *)
(* of an older release writes the event alone.                             *)
GrantEvent(e, enqueued) ==
  /\ e \notin granted
  /\ granted' = granted \cup {e}
  /\ delivery' = [delivery EXCEPT ![e] = IF enqueued THEN "unread" ELSE "none"]
  /\ UNCHANGED <<revoked, claim_token, leased, tab, shown, expired, lost>>

RevokeAward(e) ==
  /\ e \in granted \ revoked
  /\ revoked' = revoked \cup {e}
  /\ UNCHANGED <<granted, delivery, claim_token, leased, tab, shown, expired, lost>>

(* repair_delivery, at the end of the worker's command.                    *)
Missing == {e \in granted : delivery[e] = "none"}

RepairDelivery ==
  /\ Missing # {}
  /\ delivery' = [e \in Events |-> IF e \in Missing THEN "unread" ELSE delivery[e]]
  /\ UNCHANGED <<granted, revoked, claim_token, leased, tab, shown, expired, lost>>

(* feed: the unread rows nobody holds; the tab picks one of them.          *)
Available(e) == delivery[e] = "unread" /\ Visible(e) /\ e \notin leased

Poll(t, e) ==
  /\ tab[t].stage = "idle"
  /\ Available(e)
  /\ tab' = [tab EXCEPT ![t] = [stage |-> "picked", event |-> e]]
  /\ UNCHANGED <<granted, delivery, revoked, claim_token, leased, shown, expired, lost>>

ClaimableMutant(t, e) == delivery[e] = "unread" /\ Visible(e)

(* claim under the lock of the user: the same token renews its lease, a    *)
(* live lease of another token is a conflict.                              *)
Claimable(t, e) ==
  /\ delivery[e] = "unread" /\ Visible(e)
  /\ claim_token[e] = t \/ e \notin leased

Claim(t) ==
  /\ tab[t].stage = "picked"
  /\ LET e == tab[t].event IN
       IF Claimable(t, e)
         THEN /\ claim_token' = [claim_token EXCEPT ![e] = t]
              /\ leased' = leased \cup {e}
              /\ tab' = [tab EXCEPT ![t].stage = "claimed"]
         ELSE /\ tab' = [tab EXCEPT ![t] = Closed]
              /\ UNCHANGED <<claim_token, leased>>
  /\ UNCHANGED <<granted, delivery, revoked, shown, expired, lost>>

Show(t) ==
  /\ tab[t].stage = "claimed"
  /\ shown' = [shown EXCEPT ![tab[t].event] = @ \cup {t}]
  /\ tab' = [tab EXCEPT ![t].stage = "shown"]
  /\ UNCHANGED <<granted, delivery, revoked, claim_token, leased, expired, lost>>

LeaseEndsMutant(e) == FALSE /\ UNCHANGED vars

(* claim_expires_at passes.  A tab that is alive acknowledges well within  *)
(* 90 seconds; one that is suspended counts as a fault.                    *)
Holding(e) == LET t == claim_token[e] IN
                tab[t].event = e /\ tab[t].stage \in {"claimed", "shown"}

LeaseEnds(e) ==
  /\ e \in leased
  /\ IF Holding(e) THEN lost < MaxLost /\ lost' = lost + 1 ELSE UNCHANGED lost
  /\ leased' = leased \ {e}
  /\ expired' = expired \cup {e}
  /\ UNCHANGED <<granted, delivery, revoked, claim_token, tab, shown>>

AcceptsMutant(t, e) == TRUE

(* acknowledge: after the lease the token still counts until somebody else *)
(* claims the row.                                                         *)
Accepts(t, e) == delivery[e] = "unread" /\ claim_token[e] = t

AcknowledgeMutant(t) ==
  /\ tab[t].stage = "shown"
  /\ LET e == tab[t].event IN
       IF Accepts(t, e)
         THEN delivery' = [delivery EXCEPT ![e] = "read"]
         ELSE UNCHANGED delivery
  /\ tab' = [tab EXCEPT ![t] = Closed]
  /\ UNCHANGED <<granted, revoked, claim_token, leased, shown, expired, lost>>

Acknowledge(t) ==
  /\ tab[t].stage = "shown"
  /\ LET e == tab[t].event IN
       IF Accepts(t, e)
         THEN /\ delivery' = [delivery EXCEPT ![e] = "read"]
              /\ leased' = leased \ {e}
         ELSE UNCHANGED <<delivery, leased>>
  /\ tab' = [tab EXCEPT ![t] = Closed]
  /\ UNCHANGED <<granted, revoked, claim_token, shown, expired, lost>>

TabStep(t) == Claim(t) \/ Show(t) \/ Acknowledge(t)

(* An answer of the server is lost, or the tab is closed.                  *)
LoseAnswer(t) ==
  /\ tab[t].stage # "idle"
  /\ lost < MaxLost
  /\ lost' = lost + 1
  /\ \/ tab[t].stage = "picked" /\ Claimable(t, tab[t].event)
        /\ claim_token' = [claim_token EXCEPT ![tab[t].event] = t]
        /\ leased' = leased \cup {tab[t].event}
     \/ UNCHANGED <<claim_token, leased>>
  /\ tab' = [tab EXCEPT ![t] = Closed]
  /\ UNCHANGED <<granted, delivery, revoked, shown, expired>>

Next ==
  \/ \E e \in Events, enqueued \in BOOLEAN : GrantEvent(e, enqueued)
  \/ \E e \in Events : RevokeAward(e) \/ LeaseEnds(e)
  \/ RepairDelivery
  \/ \E t \in Tabs, e \in Events : Poll(t, e)
  \/ \E t \in Tabs : TabStep(t) \/ LoseAnswer(t)

Spec == Init /\ [][Next]_vars

(* The tabs poll every 50 seconds, go on with what they hold within their  *)
(* lease except for MaxLost faults, and time passes; the worker's command  *)
(* runs from a timer.                                                      *)
Fairness ==
  /\ WF_vars(RepairDelivery)
  /\ \A e \in Events : WF_vars(LeaseEnds(e)) /\ SF_vars(\E t \in Tabs : Poll(t, e))
  /\ \A t \in Tabs : WF_vars(TabStep(t))

FairSpec == Spec /\ Fairness

(* The rows and the tabs have their types.                                 *)
AchievementNotification == [Events -> {"none", "unread", "read"}]
TypeOK ==
  /\ NoTab \notin Tabs
  /\ granted \subseteq Events /\ revoked \subseteq granted /\ expired \subseteq Events
  /\ delivery \in AchievementNotification
  /\ claim_token \in [Events -> Tabs \cup {NoTab}]
  /\ leased \subseteq Events
  /\ \A e \in leased : delivery[e] = "unread" /\ claim_token[e] \in Tabs
  /\ tab \in [Tabs -> [stage : {"idle", "picked", "claimed", "shown"},
                       event : Events \cup {0}]]
  /\ shown \in [Events -> SUBSET Tabs]

(* Two tabs show the same notification only when the lease of the first    *)
(* ran out before it acknowledged (claim with LEASE_SECONDS).              *)
ShownTwiceAfterExpiry ==
  \A e \in Events : Cardinality(shown[e]) > 1 => e \in expired

(* A read notification was shown by the tab whose claim it carries: no     *)
(* late acknowledgement of a tab that lost its claim hides an award nobody *)
(* saw on the claiming tab.                                                *)
ReadWasShown ==
  \A e \in Events : delivery[e] = "read" => claim_token[e] \in shown[e]

(* A read notification was seen, and two tabs share one only by the lease. *)
RecordsTrue == TypeOK /\ ShownTwiceAfterExpiry /\ ReadWasShown

(* Every granted event is read in the end, also one whose row an older     *)
(* release did not write and one whose claiming tab was lost; a secret     *)
(* award that was revoked stays hidden.                                    *)
EventuallyRead ==
  \A e \in Events :
    (e \in granted) ~> (delivery[e] = "read" \/ ~Visible(e))
=============================================================================
