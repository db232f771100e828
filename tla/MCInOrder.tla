------------------------------ MODULE MCInOrder ------------------------------
(***************************************************************************)
(* Instances of InOrderCore: programs and values for its functions.        *)
(***************************************************************************)
EXTENDS InOrderCore

Uop(m, k, h, d) == [mop |-> m, deps |-> d, lo |-> 0, size |-> 0, kind |-> k, head |-> h, mispred |-> FALSE]
At(u, lo, n) == [u EXCEPT !.lo = lo, !.size = n]
Mispredicted(u) == [u EXCEPT !.mispred = TRUE]

(* An operation on memory, then a load of the same bytes.                  *)
ReadModifyWrite == <<At(Uop(1, "load", 1, {}), 0, 2), Uop(1, "alu", 1, {1}), At(Uop(1, "sta", 1, {}), 0, 2),
                     At(Uop(1, "std", 1, {2}), 0, 2), At(Uop(2, "load", 5, {}), 0, 2), Uop(3, "alu", 6, {5})>>
(* Two stores, one of them across lines, on the wrong path too.            *)
WrongPath == <<At(Uop(1, "load", 1, {}), 3, 2), Mispredicted(Uop(2, "branch", 2, {})),
               At(Uop(3, "sta", 3, {}), 3, 2), At(Uop(3, "std", 3, {}), 3, 2), Uop(4, "alu", 5, {1}),
               At(Uop(5, "load", 6, {}), 0, 1)>>
(* Units of different latency.                                             *)
Latencies == <<Uop(1, "mul", 1, {}), Uop(2, "alu", 2, {}), Uop(3, "agen", 3, {1}), Uop(4, "nop", 4, {}),
               Uop(5, "mul", 5, {}), Uop(6, "alu", 6, {3})>>
(* A store that stays in the STQ while its Mop is not complete.            *)
Push == <<At(Uop(1, "sta", 1, {}), 0, 2), At(Uop(1, "std", 1, {}), 0, 2), Uop(1, "mul", 3, {}),
          Uop(1, "mul", 4, {3}), Uop(2, "nop", 5, {}), At(Uop(3, "load", 6, {}), 0, 1), At(Uop(4, "load", 7, {}), 1, 2)>>

(* More stores than the STQ takes, and uops enough to fill all behind them.  *)
Stores == [n \in 1 .. 12 |-> IF n > 6 THEN Uop(n - 3, "nop", n, {})
                             ELSE LET sta == n - ((n + 1) % 2) IN
                                  At(Uop((n + 1) \div 2, IF n % 2 = 1 THEN "sta" ELSE "std", sta, {}), 0, 2)]

(* A load of the bytes of two stores whose Mop is not complete: of all of  *)
(* them (the load forwards) or of some (it waits and asks the DL1 again).  *)
Pushes(lo) ==
    <<At(Uop(1, "sta", 1, {}), 0, 2), At(Uop(1, "std", 1, {}), 0, 2), At(Uop(1, "sta", 3, {}), 0, 2),
      At(Uop(1, "std", 3, {}), 0, 2), Uop(1, "mul", 5, {}), Uop(1, "mul", 6, {5}),
      At(Uop(2, "load", 7, {}), lo, 2), Uop(3, "alu", 8, {7})>>

AllPrograms == {ReadModifyWrite, WrongPath, Latencies, Push, Stores, Pushes(0), Pushes(1)}
Binding == [k \in {"alu", "mul", "branch", "agen", "load", "sta", "std"} |->
               CASE k = "alu" -> {1, 2} [] k \in {"branch", "agen"} -> {2} [] OTHER -> {1}]
Latency == [k \in {"alu", "mul", "branch"} |-> IF k = "mul" THEN 2 ELSE 1]
Rate == [k \in {"alu", "mul", "branch"} |-> IF k = "mul" THEN 2 ELSE 1]
=============================================================================
