------------------------ MODULE MCChannelConnection ------------------------
(* Small instances of ChannelConnection.  Instances are interchangeable.   *)
EXTENDS ChannelConnection, TLC

CONSTANTS t1, t2, k1, k2

Sym == Permutations(Subs)
=============================================================================
