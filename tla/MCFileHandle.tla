----------------------------- MODULE MCFileHandle -----------------------------
(***************************************************************************)
(* A pwrite() of two parts, a pread() of three and one write on the        *)
(* caller's own thread, on two workers.                                    *)
(***************************************************************************)
EXTENDS FileHandle

CONSTANTS w1, r1, s1, p1, p2, p3, p4, p5, p6

TheCalls == {w1, r1, s1}
TheTasks == {p1, p2, p3, p4, p5, p6}
TheCallOf == [t \in TheTasks |-> CASE t \in {p1, p2} -> w1
                                   [] t \in {p3, p4, p5} -> r1
                                   [] t = p6 -> s1]
TheParts == [a \in TheCalls |-> CASE a = w1 -> <<p1, p2>>
                                  [] a = r1 -> <<p3, p4, p5>>
                                  [] a = s1 -> <<p6>>]
TheStart == [t \in TheTasks |-> CASE t = p1 -> 0 [] t = p2 -> 1 [] t = p3 -> 0
                                  [] t = p4 -> 1 [] t = p5 -> 2 [] t = p6 -> 2]
TheFaults == [t \in TheTasks |-> CASE t = p1 -> {} [] t = p3 -> {"short"} [] OTHER -> {"error"}]
NoFaults == [t \in TheTasks |-> {}]

===============================================================================
