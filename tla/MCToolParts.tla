----------------------------- MODULE MCToolParts -----------------------------
(* Instances of what decides which bytes and addresses a trace carries: the     *)
(* ranges that capture notes for a command buffer, the two passes of lava-tool  *)
(* and the import of a GFXReconstruct file; and lava-print-fast, which looks    *)
(* for packets. They share no state: a behaviour is one part's, chosen at first.*)
EXTENDS CommandTouch, SimulatedMarkings, OutputRewrite, GfxrImport, PacketIndex, TLC

CONSTANTS b1, b2

VARIABLE part

\* Ranges: the second buffer is placed at addresses inside the first; a region
\* is inside both buffers, one has no size, one ends past the end.
MCBufSize == (b1 :> 4) @@ (b2 :> 2)
MCBufAddress == (b1 :> 10) @@ (b2 :> 12)
MCSlices == {<<b1, 1, WHOLE_SIZE>>, <<b2, 0, 1>>}
MCTemplates == {<<1, 2, 3>>, <<3, 1>>}
MCRegions == {<<12, 1>>, <<11, 0>>, <<12, 3>>}

\* Simulation: addresses come by updates, copies, push and specialization
\* constants, whole or as halves, and are read in every way there is.
C(o, s, f, d, t, n) == [op |-> o, src |-> s, from |-> f, dst |-> d, to |-> t, n |-> n]
U(b, f, n, m) == [into |-> b, first |-> f, n |-> n, marks |-> m]
MCUpdates == {U("a", 0, 4, {}), U("a", 2, 2, {2}), U("b", 3, 1, {})}
MCCommands ==
    {C("copy", "a", 0, "b", 2, 2), C("update_buffer", "none", 0, "b", 2, 2), C("push", "none", 0, "push", 2, 2),
     C("load", "b", 2, "none", 0, 0), C("load", "push", 2, "none", 0, 0), C("load", "spec", 2, "none", 0, 0),
     C("halves", "b", 2, "none", 1, 0), C("composite", "b", 0, "none", 0, 0),
     C("move", "push", 2, "a", 0, 2), C("move", "spec", 2, "b", 0, 2), C("store", "none", 0, "a", 0, 1),
     C("store_address", "none", 0, "b", 2, 2), C("store_pointer", "none", 0, "a", 2, 2),
     C("trace", "b", 2, "none", 0, 0), C("build", "a", 2, "none", 0, 0)}

\* Import: two buffers and an image, of which two overlap in host memory.
S(f, n) == [first |-> f, n |-> n]
P(m, o) == [memory |-> m, offset |-> o]
MCResources == [b |-> [size |-> 3, buffer |-> TRUE], c |-> [size |-> 2, buffer |-> TRUE],
                i |-> [size |-> 2, buffer |-> FALSE]]
MCMemories == [host |-> TRUE, local |-> FALSE]
MCPlaces == {P("host", 1), P("host", 4), P("local", 0)}
MCSpans == {S(0, 5), S(3, 2)}

\* Index: all packets; one twice and out of order, in one frame; old and limited;
\* none; and one that is not there.
Q(s, f, l, n, o) == [select |-> s, range |-> [first |-> f, last |-> l], limit |-> n, old |-> o]
MCQueries == {Q(<<>>, 0, -1, -1, FALSE), Q(<<2, 0, 2>>, 1, 1, -1, FALSE), Q(<<3, 1>>, 0, -1, 1, TRUE),
              Q(<<1>>, 0, -1, 0, FALSE), Q(<<3, 2>>, 0, -1, -1, FALSE)}

PartsInit ==
    /\ part \in {"ranges", "simulation", "output", "import", "index"}
    /\ Init /\ SimInit /\ OutInit /\ GxInit /\ IxInit
    /\ part # "index" => born = 0

PartsNext ==
    /\ UNCHANGED part
    /\ \/ part = "ranges" /\ Next /\ UNCHANGED <<simvars, outvars, gxvars, ixvars>>
       \/ part = "simulation" /\ SimNext /\ UNCHANGED <<vars, outvars, gxvars, ixvars>>
       \/ part = "output" /\ OutNext /\ UNCHANGED <<vars, simvars, gxvars, ixvars>>
       \/ part = "import" /\ GxNext /\ UNCHANGED <<vars, simvars, outvars, ixvars>>
       \/ part = "index" /\ IxNext /\ UNCHANGED <<vars, simvars, outvars, gxvars>>
==============================================================================
