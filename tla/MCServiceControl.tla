-------------------------- MODULE MCServiceControl --------------------------
(* Two threads.  In the first trace the second thread waits for a handle of *)
(* the first and the first waits for the GPU; in the second each waits for  *)
(* a packet the other has behind its own wait; in the third they wait for   *)
(* each other one after the other.                                          *)
EXTENDS ServiceControl, TLC

P(type, id, on, count, gpu) == [type |-> type, id |-> id, on |-> on, count |-> count, gpu |-> gpu]

Handles == 0 :> <<P("call", "vkBeginCommandBuffer", 0, 0, FALSE), P("call", "vkWaitForFences", 0, 0, TRUE)>>
        @@ 1 :> <<P("call", "vkBindBufferMemory", 0, 1, FALSE), P("other", "-", 1, 0, FALSE)>>
Circular == 0 :> <<P("barrier", "-", 1, 1, FALSE), P("other", "-", 0, 0, FALSE)>>
         @@ 1 :> <<P("call", "vkBindBufferMemory", 0, 2, FALSE)>>
Crossing == 0 :> <<P("other", "-", 0, 0, FALSE), P("call", "vkBindImageMemory", 1, 1, FALSE)>>
         @@ 1 :> <<P("call", "vkBindBufferMemory", 0, 1, FALSE)>>
MCTraces == {Handles, Circular, Crossing}
PlainTraces == {Handles}
=============================================================================
