--------------------------- MODULE MCRtosPipeline ---------------------------
(* Small instances of RtosPipeline: a catalog with one SysEx7 run. *)
EXTENDS RtosPipeline

Out(kind, words)       == [kind |-> kind, words |-> words]
In(kind, index, words) == [kind |-> kind, index |-> index, words |-> words]

SmallCatalog == <<Out("other", 1), Out("start", 2), Out("continue", 2), Out("end", 2)>>
TwoPackets   == <<Out("start", 2), Out("end", 2)>>
SomeInbound  == {In("request", 0, 2), In("trigger", 1, 2), In("trigger", 2, 2),
                 In("pause", 0, 2), In("resume", 0, 2), In("other", 0, 1)}
=============================================================================
