------------------------------- MODULE MCCore -------------------------------
(***************************************************************************)
(* Instances of OutOfOrderCore: programs and values for its functions.     *)
(***************************************************************************)
EXTENDS OutOfOrderCore

Uop(m, k, d) == [mop |-> m, deps |-> d, lo |-> 0, size |-> 0, kind |-> k, fused |-> "no", mispred |-> FALSE]
At(u, lo, n) == [u EXCEPT !.lo = lo, !.size = n]
Fused(u, f) == [u EXCEPT !.fused = f]
Mispredicted(u) == [u EXCEPT !.mispred = TRUE]

Bypassed == <<At(Uop(1, "load", {}), 8, 2), At(Uop(2, "sta", {1}), 0, 2), At(Uop(2, "std", {}), 0, 2),
              At(Uop(3, "load", {}), 0, 2), Uop(4, "alu", {4})>>
WrongPath == <<At(Uop(1, "load", {}), 0, 2), Mispredicted(Uop(2, "branch", {1})),
               At(Uop(3, "sta", {}), 0, 2), At(Uop(3, "std", {}), 0, 2), At(Uop(4, "load", {}), 0, 2)>>
Split == <<At(Uop(1, "load", {}), 3, 2), Fused(At(Uop(2, "load", {1}), 0, 2), "head"),
           Fused(Uop(2, "alu", {2}), "body"), Uop(3, "alu", {3}), Uop(4, "alu", {4})>>
Fences == <<At(Uop(1, "sta", {}), 0, 2), At(Uop(1, "std", {}), 0, 2), Uop(2, "mfence_ld", {}),
            Uop(2, "mfence_st", {}), At(Uop(3, "load", {}), 0, 2)>>
Partial == <<At(Uop(1, "load", {}), 8, 1), Uop(2, "alu", {1}), At(Uop(3, "sta", {2}), 0, 1),
             At(Uop(3, "std", {2}), 0, 1), At(Uop(4, "load", {1}), 0, 2)>>

Forwarded == <<At(Uop(1, "load", {}), 8, 1), At(Uop(2, "sta", {}), 0, 2), At(Uop(2, "std", {}), 0, 2),
               At(Uop(3, "sta", {1}), 0, 2), At(Uop(3, "std", {}), 0, 2), At(Uop(4, "load", {}), 0, 2)>>
AllPrograms == {Bypassed, WrongPath, Split, Fences, Partial, Forwarded}
Binding == [k \in {"alu", "load", "sta", "std"} |-> CASE k = "alu" -> <<1, 2>> [] k = "load" -> <<1>> [] OTHER -> <<2>>]
Ones == [k \in {"alu", "load", "sta", "std"} |-> 1]
=============================================================================
