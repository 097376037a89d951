-------------------------- MODULE MCFilterRegistry --------------------------
(* A log filter, a block filter, one websocket subscription (made by      *)
(* NewHeads or by Logs), two published blocks, one poll.                  *)
EXTENDS FilterRegistry

CONSTANTS f1, f2, p1

MCIds == {f1, f2}

MCBlockIds == {f2}

=============================================================================
