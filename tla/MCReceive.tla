-------------------------------- MODULE MCReceive --------------------------------
EXTENDS Receive

F(i, t, e, c, bs) == [idx |-> i, pts |-> t, epoch |-> e, chunk |-> c, blocks |-> bs]
B(k, m) == [k |-> k, m |-> m]

SmallPlan == << F(6, 0, 0, FALSE, <<B(2, 1), B(1, 0)>>), F(7, 1, 0, TRUE, <<B(2, 0)>>),
                F(1, 3, 1, FALSE, <<B(1, 0), B(1, 0), B(1, 0)>>) >>
SmallResent == <<1>>
AllOptions == {{}, {"parts"}, {"partial"}}
UnitCost(k, m) == 1
None == "none"
=============================================================================
