-------------------------- MODULE MCPriceNoticeBot --------------------------
(* Instantiation of PriceNoticeBot for TLC: one admin and one other user,  *)
(* two task identities (enough for a second loop to appear), all origins   *)
(* configured, reports of one or two chunks, a history of capacity 2 fed  *)
(* with 3 messages so that eviction happens.                               *)
EXTENDS PriceNoticeBot

CONSTANTS admin, guest, t1, t2

MCUsers == {admin, guest}
MCAdmins == {admin}
MCTaskIds == {t1, t2}
=============================================================================
