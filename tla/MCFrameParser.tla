--------------------------- MODULE MCFrameParser ----------------------------
(* Instance of FrameParser: up to three tags of three kinds, bodies that   *)
(* are empty, one word short of an ARP packet, exactly one, padded, padded *)
(* until both tags just fit in the buffer, and one and five words longer:  *)
(* a frame without tags then fills all of the buffer but three words, or   *)
(* is longer than the buffer.                                              *)
EXTENDS FrameParser, SequencesExt

MCMac == <<1, 2, 3, 4, 5, 6>>
MCTagList == SeqOf(Tag, 3)
MCBody == {[k \in 1 .. n |-> 100 + k] : n \in {0, ArpHeader - 1, ArpHeader, 16, 21, 22, 26}}
=============================================================================
