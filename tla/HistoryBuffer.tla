---------------------------- MODULE HistoryBuffer ----------------------------
(***************************************************************************)
(* received_messages of src/bot/price_notice_bot.py: handle_message        *)
(* appends every inbound non-command message and then keeps only the last  *)
(* 50.  show_messages_command only reads the last 5 for its reply.        *)
(* Messages are abstracted to their arrival number.                        *)
(***************************************************************************)
EXTENDS Naturals, Sequences

CONSTANT HistoryCap   \* 50 in the code

ASSUME HistoryCap \in Nat \ {0}

\* Mutant: the trim keeps one message too few.
KeepLastOffByOne(h) ==
    IF Len(h) > HistoryCap THEN SubSeq(h, Len(h) - HistoryCap + 2, Len(h)) ELSE h

\* self.received_messages[-HistoryCap:] when the list is longer.
KeepLast(h) ==
    IF Len(h) > HistoryCap THEN SubSeq(h, Len(h) - HistoryCap + 1, Len(h)) ELSE h

\* append, then trim.
AppendMessage(h, m) == KeepLast(Append(h, m))

=============================================================================
