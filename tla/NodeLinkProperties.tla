------------------------- MODULE NodeLinkProperties -------------------------
(* What the connections promise, over NodeLink's variables. *)
EXTENDS NodeLink

\* A session in the map is a socket of that node whose server end exists:
\* replacing, late closing and the health check never leave behind an entry
\* for a socket that is gone.
EntryHasServerEnd ==
    \A n \in Nodes : sessions[n] # NoSocket =>
        owner[sessions[n]] = n /\ serverEnd[sessions[n]] # "none"

Connected(n) == /\ ws[n] # NoSocket /\ sessions[n] = ws[n]
                /\ agentEnd[ws[n]] = "open" /\ serverEnd[ws[n]] = "open"

\* The entry of a connected node that was heard within the timeout is taken away
\* or overwritten only by an older connection, which the agent has given up:
\* when its close arrives late, or when its connect was abandoned and succeeds
\* late all the same; or else by a restart of the server.
ActiveSessionStays ==
    [][\A n \in Nodes :
          (Connected(n) /\ idle[n] <= Timeout /\ sessions'[n] # sessions[n])
              => \/ \E s \in Sockets \ {ws[n]} :
                       /\ owner[s] = n
                       /\ \/ /\ serverEnd[s] = "closing" /\ ~Live(s)
                             /\ sessions'[n] = NoSocket
                          \/ agentEnd[s] = "abandoned" /\ sessions'[n] = s
                 \/ \A s \in Sockets : serverEnd'[s] = "none"]_vars

\* The server knows the current socket of an agent whose monitor was started
\* again and again, whatever closes, hangs or is forgotten: silence makes the
\* agent reconnect. (An agent whose first connection never opens has no
\* monitor and stays alone.)
AgentComesBack ==
    \A n \in Nodes :
        <>[](monitors[n] /\ ws[n] # NoSocket) => []<>(sessions[n] = ws[n])

\* A connection that the server has forgotten does not last: it gets no ping,
\* and the agent gives it up.
ForgottenIsReplaced ==
    \A n \in Nodes, s \in Sockets :
        (ws[n] = s /\ agentEnd[s] = "open" /\ sessions[n] # s)
            ~> ~(ws[n] = s /\ agentEnd[s] = "open" /\ sessions[n] # s)

\* A session whose other end is gone or abandoned leaves the map: the health
\* check removes what is inactive (comment in XrayPartnerWebSocketHandler).
DeadSessionIsRemoved ==
    \A n \in Nodes, s \in Sockets :
        (sessions[n] = s /\ ~Live(s)) ~> sessions[n] # s
=============================================================================
