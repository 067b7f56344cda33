---------------------------- MODULE MCReplayParts ----------------------------
(* Instances of the parts of the replayer, and of the client that keeps a copy  *)
(* of its log. They share no state: a behaviour is one part's, chosen at first. *)
EXTENDS SwapchainReplay, CommandBufferReplay, AddressRewrite, DescriptorTemplate, LogCache

VARIABLE part

R(a, b) == [first |-> a, last |-> b]
MCShotSpecs == {<<>>, <<R(0, 0), R(1, 1)>>, <<R(1, 1), R(0, 0)>>, <<R(1, 0)>>}
MCBoundaryImages == {-1, 0}

\* Scratch that overlaps, none, and scratch that keeps its place.
B(f, n) == [first |-> f, n |-> n]
MCBuilds == {<<B(0, 3), B(0, 0), B(2, 3)>>, <<B(2, 2), B(0, 1)>>}

\* Entries with a stride of their own, without elements, and next to one another.
E(t, o, s, n) == [type |-> t, offset |-> o, stride |-> s, count |-> n]
MCTemplates == {<<E("combined", 0, 0, 1), E("buffer", 3, 4, 2)>>,
                <<E("image", 1, 3, 2), E("inline", 0, 0, 1), E("sampler", 7, 0, 1)>>,
                <<E("buffer", 0, 0, 0), E("texel", 0, 2, 2), E("image", 4, 0, 1)>>}

\* Both are used as sets only: no action depends on an order of their elements.
Symmetric == Permutations(CommandBuffers) \cup Permutations(SubmitFences)

PartsInit ==
    /\ part \in {"swapchain", "command buffers", "addresses", "templates", "log"}
    /\ SwapInit /\ CbInit /\ RwInit /\ TmInit /\ LogInit
    /\ part # "swapchain" => noscreen /\ ranges = <<R(0, 0), R(1, 1)>>
    /\ part # "addresses" => trace.helpers /\ trace.portable /\ trace.uses = "buffers"

PartsNext ==
    /\ UNCHANGED part
    /\ \/ part = "swapchain" /\ SwapNext /\ UNCHANGED <<cbvars, rwvars, tmvars, logvars>>
       \/ part = "command buffers" /\ CbNext /\ UNCHANGED <<swapvars, rwvars, tmvars, logvars>>
       \/ part = "addresses" /\ RwNext /\ UNCHANGED <<swapvars, cbvars, tmvars, logvars>>
       \/ part = "templates" /\ TmNext /\ UNCHANGED <<swapvars, cbvars, rwvars, logvars>>
       \/ part = "log" /\ LogNext /\ UNCHANGED <<swapvars, cbvars, rwvars, tmvars>>
==============================================================================
