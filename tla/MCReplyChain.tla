---------------------------- MODULE MCReplyChain ----------------------------
(* ReplyChain for TLC.                                                     *)
EXTENDS ReplyChain

\* Both chained reply formats, and objects that end a reply or do not.
\* 0x02 ends a reply exactly as 0x03 does.
MCFormats == {OBJDSS, RPYDSS_CHAIN, RPYDSS_CHAIN_RC, OBJDSS_CHAIN}
=============================================================================
