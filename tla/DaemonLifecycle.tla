--------------------------- MODULE DaemonLifecycle ---------------------------
(***************************************************************************)
(* What a service manager may rely on of `goodnetd run`: it comes up with   *)
(* one identity or fails, serves until it is told to stop, drains, and      *)
(* returns 0; nothing but the request ends a serving daemon, and no signal   *)
(* kills it any more.                                                       *)
(***************************************************************************)
EXTENDS Integers

CONSTANTS Identities,  \* what a daemon may serve as
          Nobody,      \* the identity of one that does not serve
          Signals,     \* requests to stop
          NoSignal

VARIABLES phase, code, who, stop

lifecycle == <<phase, code, who, stop>>

Init ==
    /\ phase = "booting" /\ code = -1
    /\ who = Nobody /\ stop = NoSignal

ComeUp ==
    /\ phase = "booting" /\ phase' = "serving"
    /\ who' \in Identities
    /\ UNCHANGED <<code, stop>>

\* At once, or after what was loaded has been unloaded.
Fail ==
    /\ phase = "booting" /\ phase' \in {"failing", "ended"}
    /\ code' \in {1, 2}
    /\ UNCHANGED <<who, stop>>

\* The first request is kept.
Request ==
    /\ phase \in {"booting", "serving"}
    /\ stop = NoSignal /\ stop' \in Signals
    /\ UNCHANGED <<phase, code, who>>

Drain ==
    /\ phase = "serving" /\ stop # NoSignal
    /\ phase' = "draining" /\ code' = 0
    /\ UNCHANGED <<who, stop>>

Finish ==
    /\ phase \in {"draining", "failing"} /\ phase' = "ended"
    /\ UNCHANGED <<code, who, stop>>

Kill ==
    /\ phase \in {"booting", "failing"} /\ phase' = "killed"
    /\ UNCHANGED <<code, who, stop>>

Progress == ComeUp \/ Fail \/ Drain \/ Finish

Next == Progress \/ Request \/ Kill

SafeSpec == Init /\ [][Next]_lifecycle

Spec == SafeSpec /\ WF_lifecycle(Progress)
=============================================================================
