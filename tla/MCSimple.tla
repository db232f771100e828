------------------------------ MODULE MCSimple ------------------------------
(***************************************************************************)
(* Instances of SimpleCore: programs and values for its functions.         *)
(***************************************************************************)
EXTENDS SimpleCore

Uop(m, k, d) == [mop |-> m, deps |-> d, addr |-> 0, kind |-> k, line |-> 1, taken |-> FALSE, steer |-> {}]
At(u, a) == [u EXCEPT !.addr = a]
On(u, l) == [u EXCEPT !.line = l]
Missed(u) == [u EXCEPT !.steer = {"exec"}]
Steered(u, S) == [u EXCEPT !.steer = S, !.taken = TRUE]

(* A store whose address comes late, a load of that address, and uops that *)
(* are dispatched after the one they depend on is done.                    *)
Forward == <<Uop(1, "mul", {}), Uop(1, "mul", {1}), At(Uop(2, "sta", {2}), 1), At(Uop(2, "std", {}), 1),
             At(Uop(3, "load", {}), 1), On(Uop(4, "alu", {5}), 2), On(Uop(4, "alu", {1}), 2)>>
(* A branch that is found out late, and again on the wrong path.           *)
WrongPath == <<Uop(1, "mul", {}), Uop(1, "mul", {}), Missed(Uop(2, "branch", {})), Uop(3, "mul", {}), Uop(4, "mul", {}),
               On(Steered(Uop(5, "branch", {}), {"decode"}), 2), On(Uop(6, "alu", {4}), 1)>>
(* Both, with a load and a store behind it.                                *)
Resteer == <<Uop(1, "mul", {}), Steered(Uop(2, "branch", {1}), {"decode", "exec"}), On(At(Uop(3, "load", {}), 1), 2),
             On(At(Uop(4, "sta", {}), 1), 2), On(At(Uop(4, "std", {3}), 1), 2), On(Uop(5, "nop", {}), 2)>>
(* As many stores as the STQ takes, and a load behind them.                *)
FullQueue == <<Uop(1, "mul", {}), Uop(1, "mul", {1}), Uop(1, "mul", {2}), At(Uop(2, "sta", {}), 1), At(Uop(2, "std", {}), 1),
               At(Uop(3, "sta", {}), 2), At(Uop(3, "std", {3}), 2), At(Uop(4, "load", {}), 2)>>
AllPrograms == {Forward, WrongPath, Resteer, FullQueue}
Binding == [k \in {"alu", "mul", "branch", "load", "sta", "std"} |->
               CASE k = "alu" -> {1, 2} [] k \in {"branch", "load"} -> {2} [] OTHER -> {1}]
Latency == [k \in {"alu", "mul", "branch", "load", "sta", "std"} |-> IF k = "mul" THEN 2 ELSE 1]
Rate == [k \in {"alu", "mul", "branch", "load", "sta", "std"} |-> IF k = "mul" THEN 2 ELSE 1]
=============================================================================
