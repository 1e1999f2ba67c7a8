---------------------------- MODULE MCSampleRuns ----------------------------
(* Every profile, and requests of each kind.                                 *)
EXTENDS SampleRuns

AllProfiles ==
  [vlm : {"off", "final", "fallback"}, read : {"off", "final", "fallback"},
   copyText : BOOLEAN, llm : BOOLEAN, keyboard : {"adb", "u2"}]

Says(role, blank) == [role |-> role, blank |-> blank]

Request(to, mode, timeout, retry) ==
  [to |-> to, fault |-> "none", model |-> "known", mode |-> mode, timeout |-> timeout,
   messages |-> <<Says("system", FALSE), Says("user", FALSE)>>, retry |-> retry,
   callback |-> FALSE]

Chat == Request("chat", "gui_android", 0, 2)
Test == Request("sync", "api", 0, 0)

SomeBodies ==
  {Request(to, mode, timeout, retry) :
     to \in {"chat", "sync"}, mode \in {"api", "gui_android", "agent_android", "gui_pc_web"},
     timeout \in {0, 1}, retry \in {0, 2}}
  \cup {[Chat EXCEPT !.fault = f] : f \in {"token", "json", "schema", "unsupported"}}
  \cup {[Chat EXCEPT !.model = m] : m \in {"unknown", "malformed"}}
  \cup {[Chat EXCEPT !.messages = m] :
          m \in {<<Says("system", FALSE)>>, <<Says("user", TRUE)>>,
                 <<Says("user", FALSE), Says("assistant", FALSE)>>}}
  \cup {[Test EXCEPT !.fault = f] : f \in {"token", "json", "schema"}}
  \cup {[Test EXCEPT !.callback = TRUE], [Test EXCEPT !.model = "unknown"],
        Request("async", "api", 0, 0)}
=============================================================================
