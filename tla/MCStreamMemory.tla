----------------------------- MODULE MCStreamMemory -----------------------------
(* StreamMemory for TLC, with the smallest classes of the pool and the sizes   *)
(* of the allocator of the runtime between them.                              *)
EXTENDS StreamMemory, TLC

CONSTANTS m1, m2

MCStreams     == {m1, m2}
MCClassCaps   == <<256, 512, 1024>>
MCSizeClasses == {256, 320, 384, 448, 512, 576, 640, 704, 768, 896, 1024, 1152, 1280, 1408, 1536, 1792, 2048,
                  2304, 2688, 3072, 3200, 3456, 4096, 4864, 5376, 6144}
MCSymmetry    == Permutations(MCStreams)

================================================================================
