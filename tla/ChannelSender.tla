---------------------------- MODULE ChannelSender ----------------------------
(***************************************************************************)
(* send_to_channel of src/bot/price_notice_bot.py: one rendered report is  *)
(* delivered as n chunks, one send_message per step (the 0.5 s pacing      *)
(* sleep before every chunk after the first is the suspension point that   *)
(* separates the steps).  A failed chunk is logged and the remaining       *)
(* chunks are still sent; the call returns True only if all succeeded.     *)
(* How many chunks a report needs is decided by _split_message, which the  *)
(* Chunker module checks on its own.                                       *)
(***************************************************************************)
EXTENDS Naturals

CONSTANT MaxChunks   \* most chunks a report is split into
ASSUME MaxChunks \in Nat \ {0}

\* No delivery in progress for this actor, or the last one finished.
NoSend == [phase |-> "idle", n |-> 0, sent |-> 0, delivered |-> 0, ok |-> TRUE]

\* Entering send_to_channel for a report of n chunks (n = 1 is the
\* len(text) <= max_message_length branch); success starts True.
BeginSend(n) == [phase |-> "sending", n |-> n, sent |-> 0, delivered |-> 0, ok |-> TRUE]

\* Mutant: the batch result is the last chunk's result only.
SendChunkLastVerdict(rec, delivered) ==
    [rec EXCEPT !.sent      = @ + 1,
                !.delivered = IF delivered THEN @ + 1 ELSE @,
                !.ok        = delivered,
                !.phase     = IF rec.sent + 1 = rec.n THEN "done" ELSE "sending"]

\* One send_message for chunk rec.sent + 1; a TelegramError clears success.
SendChunk(rec, delivered) ==
    [rec EXCEPT !.sent      = @ + 1,
                !.delivered = IF delivered THEN @ + 1 ELSE @,
                !.ok        = @ /\ delivered,
                !.phase     = IF rec.sent + 1 = rec.n THEN "done" ELSE "sending"]

SendRecords == [phase : {"idle", "sending", "done"}, n : 0..MaxChunks,
                sent : 0..MaxChunks, delivered : 0..MaxChunks, ok : BOOLEAN]
=============================================================================
