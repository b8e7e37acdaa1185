----------------------- MODULE EscalationJobProperties ----------------------
(***************************************************************************)
(* What EscalationJob is checked for.                                       *)
(***************************************************************************)
EXTENDS EscalationJob

\* One sweep at a time on a server, whoever started it, and at most one trigger ...
OneAtATime ==
    \A a, b \in Sweepers : Server(a) = Server(b) =>
        /\ Sweeping(a) /\ Sweeping(b) => a = b
        /\ Triggered(a) /\ Triggered(b) => a = b

\* ... and the server's flags say so: neither a panic nor a refusal leaves one set,
\* which would refuse every later sweep.
FlagsAreHeld ==
    /\ OneAtATime
    /\ \A s \in Servers :
          /\ running[s] = (\E a \in Sweepers : Server(a) = s /\ Sweeping(a))
          /\ triggered[s] = (\E a \in Sweepers : Server(a) = s /\ Triggered(a))

\* Who has escalated a risk and is about to announce it.
Announcing(r) == { a \in Actors : At(a, r, "notify") }

\* However many servers sweep the same risks while people escalate them by hand, every
\* escalation is announced once, unless a fault loses the answer, the email or the
\* sweep, and a risk is escalated once while it is under remediation.  The exception is
\* a call that counted no OPEN escalation, was overtaken by another's, and flips the
\* risk again after somebody has commented.
AnnouncedOnce ==
    \A r \in Risks :
        /\ notices[r] + Cardinality(Announcing(r)) <= escalations[r]
        /\ escalations[r] <= notices[r] + Cardinality(Announcing(r)) + faults
        /\ escalations[r] <= episodes[r] + repeats[r]

\* A sweep ends, even when every call it makes fails.
SweepsEnd == \A a \in Sweepers : (sweeps[a].pc # "idle") ~> (sweeps[a].pc = "idle")

\* Given timers that fire and calls that do not fail for ever, an overdue risk does
\* not wait for ever, although a page in front of it may fail, sweeps may be refused,
\* and risks answered long ago stay unresolved.
OverdueIsEscalated ==
    TimersFire /\ CallsSucceed
        => \A r \in Risks : (state[r] = "overdue") ~> (state[r] # "overdue")

=============================================================================
