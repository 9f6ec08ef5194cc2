--------------------------- MODULE MCTelegramLoop ----------------------------
(* The instance of TelegramLoop for TLC.                                    *)
EXTENDS TelegramLoop, TLC

(* an image is used by the write that follows, an offset by the answer to   *)
(* its request, a stop event by a loop that lives                           *)
WithoutLeftovers ==
  <<sent, dropped, memory, disk, held, status, pc, batch, now, joined, crashes, history,
    {l \in told : Alive(l)},
    [l \in Loop |-> IF At(l, "asked") THEN offset[l] ELSE 0],
    [t \in Thread |-> IF At(t, "write") THEN snap[t] ELSE 0]>>
=============================================================================
