------------------------------- MODULE MCServe -------------------------------
(* Serve with two places on one bus, whose busids would coincide without    *)
(* separators; the longer of them fills its field.                          *)
EXTENDS ServeInv, TLC

MCSites == {[bus |-> <<48, 97>>, chain |-> <<1, 2>>],
            [bus |-> <<48, 97>>, chain |-> <<12>>]}

MCProducts == {[vidpid |-> 1, class |-> 0, interfaces |-> <<3, 8>>],
               [vidpid |-> 1, class |-> 0, interfaces |-> <<>>],
               [vidpid |-> 2, class |-> 0, interfaces |-> <<3>>],
               [vidpid |-> 1, class |-> HUB_CLASS, interfaces |-> <<>>]}

MCLengths == {-1, 1}

InstanceSymmetry == Permutations(Instances)
=============================================================================
