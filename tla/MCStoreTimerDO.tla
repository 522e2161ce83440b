--------------------------- MODULE MCStoreTimerDO ---------------------------
(***************************************************************************)
(* Instances of StoreTimerDO for model checking: values for its constants. *)
(***************************************************************************)
EXTENDS StoreTimerDO

Slots1 == {{1}}
Slots2 == {{1}, {2}}
Slots12 == {{1}, {2}, {1, 2}}
Boil24 == [soft |-> 4, hard |-> 2]
Plain == [arms |-> 2, ratio |-> 0]
Wide == [arms |-> 2, ratio |-> 50]
OneArm == [arms |-> 1, ratio |-> 50]

Provisioned == {[version |-> 1, active |-> TRUE, cfg |-> OneArm]}

\* A later version with other parameters, a deactivation, and the first version redelivered.
Reconfigured == Provisioned \cup {[version |-> 2, active |-> TRUE, cfg |-> Wide],
                                  [version |-> 2, active |-> FALSE, cfg |-> OneArm]}

Boil1 == [soft |-> 1, hard |-> 1]
Line(index, firmness, table) == [index |-> index, firmness |-> firmness, table |-> table]
Record(sequence, order, lines) ==
  [terminal |-> "x", sequence |-> sequence, order |-> order, lines |-> lines, arrival |-> 0]

\* One terminal: an order of two lines, changed to one, then gone; each record may come
\* alone, any number of times, in any order, and with another one.
R1 == Record(1, 1, {Line(1, "soft", "a"), Line(2, "soft", "a")})
R2 == Record(2, 1, {Line(1, "hard", "b")})
R3 == Record(3, 1, {})
RecordBatches == {<<R1>>, <<R2, R1>>, <<R2, R3>>}

\* A second order, posted and cancelled.
FewPosts == {[order |-> 2, lines |-> {Line(1, "soft", "a")}], [order |-> 2, lines |-> {}]}
FirstLines == {<<1, 1>>, <<2, 1>>}
FirstLine == {<<1, 1>>}

\* Two orders of one line, of which one fits.
CrowdedPosts == {[order |-> o, lines |-> {Line(1, "soft", "a")}] : o \in {1, 2}}
=============================================================================
