---------------------------- MODULE ReminderLedger --------------------------
(***************************************************************************)
(* What both reminder sweeps promise of every reminder they claim: it is    *)
(* held by one sweep at a time; a sweep that holds it tells it, gives it     *)
(* back, or loses it; what was told or lost is never taken up again.  The    *)
(* reminders of one digest move together.                                   *)
(***************************************************************************)
CONSTANTS Reminders

VARIABLE entry

Entries == { "free", "held", "told", "lost" }

Init == entry = [ k \in Reminders |-> "free" ]

\* A claim can be lost before anybody knows of it: the insert commits and its
\* answer does not come back.
Legal == { <<"free", "held">>, <<"free", "lost">>,
           <<"held", "free">>, <<"held", "told">>, <<"held", "lost">> }

\* Any number of reminders take one such step each.
Next ==
    /\ entry' \in [ Reminders -> Entries ]
    /\ \A k \in Reminders :
          entry'[k] # entry[k] => <<entry[k], entry'[k]>> \in Legal

Spec == Init /\ [][Next]_entry

=============================================================================
