--------------------------- MODULE MCOmxComponent ----------------------------
(* The commands of the runs of OmxComponent. *)
EXTENDS OmxComponent

Cmd(name, param) == [cmd |-> name, nParam |-> param]
Sets(S) == {StateSet(s) : s \in S}
On(name, params) == {Cmd(name, p) : p \in params}

MCLifecycle == Sets({Loaded, Idle, Executing, Pause})
MCToggle == On("PortDisable", {0}) \cup On("PortEnable", {0})
MCFlush == On("Flush", {0})

\* Everything that a component takes or refuses, now or always, for one port.
MCSession == MCLifecycle \cup Sets({Invalid, WaitForResources})
                 \cup MCToggle \cup MCFlush
                 \cup On("Flush", {nPorts}) \cup On("MarkBuffer", {0, nPorts})

MCFeed == MCLifecycle \cup MCToggle \cup MCFlush

\* Flush of OMX_ALL sends one event for each port, the later ones for whatever
\* command is pending by then: CommandsConclude is about the others.  (Pause is left to
\* the other runs.)
MCLive == Sets({Loaded, Idle, Executing}) \cup MCFlush

\* PortDisable races with the buffers of a feeder; HeadersRegistered is not
\* checked with it.
MCFeedAll == MCFeed \cup On("Flush", {OMX_ALL})

MCUp == Sets({Idle})
=============================================================================
