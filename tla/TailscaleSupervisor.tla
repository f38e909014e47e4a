------------------------- MODULE TailscaleSupervisor ------------------------
(***************************************************************************)
(* The supervisor of one foreground exposure child, `tailscale serve` or   *)
(* `tailscale funnel` (internal/tailscale): preflight, launch, the banner  *)
(* that proves the exposure, the retry loop and the teardown.  Its owner   *)
(* (WebhookIngress, DocumentOrigin) starts it and cancels it.              *)
(***************************************************************************)
EXTENDS Naturals

CONSTANT MaxAttempts   \* bound: attempts of one supervisor

VARIABLES
    sup,        \* off, preflight, launching, giving_up, serving, backoff, ended
    child,      \* none, starting, exposed: the route exists while it is exposed
    signalled,  \* the child was interrupted, and its kill is armed
    cancelled,  \* the owner cancelled the supervisor
    told,       \* its last report to the owner: none, serving, problem, stopped
    attempts

supVars == <<sup, child, signalled, cancelled, told, attempts>>

SupTypeOK ==
    /\ sup \in {"off", "preflight", "launching", "giving_up", "serving", "backoff", "ended"}
    /\ child \in {"none", "starting", "exposed"} /\ signalled \in {"no", "asked", "armed"}
    /\ cancelled \in BOOLEAN /\ told \in {"none", "serving", "problem", "stopped"}
    /\ attempts \in 0 .. MaxAttempts

SupInit ==
    /\ sup = "off" /\ child = "none" /\ signalled = "no" /\ cancelled = FALSE /\ told = "none"
    /\ attempts = 0

Exposed == child = "exposed"
Finished == sup \in {"off", "ended"}

(* The owner's calls: Run, under a context that may be cancelled already. *)
StartSupervisor(already) ==
    /\ sup' = "preflight" /\ cancelled' = already /\ told' = "none" /\ attempts' = 0
    /\ UNCHANGED <<child, signalled>>

(* Fault: the child is interrupted, and waited for without a deadline. *)
CancelSupervisorAsking ==
    /\ cancelled' = TRUE
    /\ signalled' = IF child = "none" THEN signalled ELSE "asked"
    /\ UNCHANGED <<sup, child, told, attempts>>

(* Cancelling the context interrupts the child and arms the kill. *)
CancelSupervisor ==
    /\ cancelled' = TRUE
    /\ signalled' = IF child = "none" THEN signalled ELSE "armed"
    /\ UNCHANGED <<sup, child, told, attempts>>

-----------------------------------------------------------------------------
(* Run's loop is left when the context is cancelled: with a report after   *)
(* an attempt, without one in the backoff.                                 *)
Ended(report) ==
    IF cancelled THEN sup' = "ended" /\ told' = "stopped" ELSE sup' = "backoff" /\ told' = report

(* DNSName: the node's backend runs, or it does not. *)
Preflight ==
    /\ sup = "preflight" /\ UNCHANGED <<signalled, cancelled>>
    /\ \/ /\ ~cancelled /\ attempts < MaxAttempts /\ attempts' = attempts + 1
          /\ sup' = "launching" /\ child' = "starting" /\ UNCHANGED told
       \/ Ended("problem") /\ UNCHANGED <<child, attempts>>

(* The child obtains the route and prints this node's own URL. *)
Expose ==
    /\ child = "starting" /\ child' = "exposed"
    /\ UNCHANGED <<sup, signalled, cancelled, told, attempts>>

SeesBanner ==
    /\ sup = "launching" /\ child = "exposed"
    /\ sup' = "serving" /\ told' = "serving"
    /\ UNCHANGED <<child, signalled, cancelled, attempts>>

(* Fault: the child is interrupted, and waited for without a deadline. *)
GiveUpOnAsking == "asked"

(* Only the context's cancellation arms WaitDelay's kill. *)
GiveUpSignal == "armed"

(* No banner in time: the attempt is cancelled and its exit awaited. *)
BannerTimeout ==
    /\ sup = "launching" /\ sup' = "giving_up"
    /\ signalled' = IF child = "none" \/ signalled = "armed" THEN signalled ELSE GiveUpSignal
    /\ UNCHANGED <<child, cancelled, told, attempts>>

(* The child ends of its own, or on the interrupt, which takes the route   *)
(* down with it; the kernel kills it with its parent.                      *)
ChildExits ==
    /\ child # "none" /\ child' = "none"
    /\ UNCHANGED <<sup, signalled, cancelled, told, attempts>>

(* A child that lingers past WaitDelay is killed. *)
ChildKilled ==
    /\ child # "none" /\ signalled = "armed" /\ child' = "none"
    /\ UNCHANGED <<sup, signalled, cancelled, told, attempts>>

(* The exit is noticed and the attempt ends. *)
Exited ==
    /\ sup \in {"launching", "giving_up", "serving"} /\ child = "none"
    /\ Ended("problem") /\ signalled' = "no"
    /\ UNCHANGED <<child, cancelled, attempts>>

Backoff ==
    /\ sup = "backoff"
    /\ sup' = IF cancelled THEN "ended" ELSE "preflight"
    /\ UNCHANGED <<child, signalled, cancelled, told, attempts>>

SupNext ==
    \/ Preflight \/ Expose \/ SeesBanner \/ BannerTimeout \/ ChildExits \/ ChildKilled \/ Exited
    \/ Backoff
=============================================================================
