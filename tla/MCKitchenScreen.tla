-------------------------- MODULE MCKitchenScreen --------------------------
\* KitchenScreen for TLC: two kettles, two orders, and a plan for them.
EXTENDS KitchenScreen

MCItem(n) == [order |-> n, index |-> 1, firmness |-> 1, table |-> None, arrival |-> 0,
              completedAt |-> None, interruptedAt |-> None, tableAssignedAt |-> None]
MCItems == {MCItem(1), MCItem(2)}
MCEntry(n, slot, start) == [item |-> MCItem(n), slots |-> <<slot>>, startAt |-> start, group |-> n,
                            anchor |-> None, boil |-> 3]
MCPlans == {{MCEntry(1, 0, 0)}}
MCSlots == {0, 1}
MCBoil == <<3, 2>>
=============================================================================
