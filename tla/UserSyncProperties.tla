------------------------- MODULE UserSyncProperties -------------------------
(* What the synchronisation of users promises, over UserSync's variables. *)
EXTENDS UserSync

\* A sync that nothing raced with - the executor was idle when it arrived, the
\* list was current, and no subscription began or ended, no command and no
\* restart came in between - leaves the node with exactly the users whose
\* subscription runs, in whatever order the pool's threads worked
\* (CommandHandler.on_message, UserData.from).
CleanSyncIsExact ==
    \A n \in Nodes : (clean[n] /\ pool[n] = <<>>) => installed[n] = Due

\* Syncs, logins, the races between them and lost messages never cut off a
\* user whose subscription always ran and who was never switched off: such a
\* user leaves a node only when Xray itself stops.
SubscriberIsNeverCutOff ==
    [][\A n \in Nodes, u \in Users :
          (u \in installed[n] /\ u \notin installed'[n])
              => u \in doubted \/ ~xrayUp'[n]]_vars

\* The node can be reached, and serves.
Reachable(n) == link[n] = "open" /\ xrayUp[n] /\ timer

\* A subscriber who is not disabled is in the end served by every node that
\* stays reachable, whatever was lost, reordered or forgotten before: the
\* periodic sync repairs it.
SubscriberIsServed ==
    \A n \in Nodes, u \in Users :
        <>[](Reachable(n) /\ u \in Due /\ status[u] = 0)
            => <>[](u \in installed[n])

\* A user whose subscription has ended is removed from such a node - again and
\* again, because every login adds the user once more.
ExpiredIsRemoved ==
    \A n \in Nodes, u \in Users :
        <>[](Reachable(n) /\ u \notin Due) => []<>(u \notin installed[n])

-----------------------------------------------------------------------------
(* The inductive invariant behind CleanSyncIsExact and SubscriberIsNeverCutOff. *)

\* Operations about users that have a row, of which none takes anybody off a
\* node but those who ever expired or were switched off.
HarmlessOps ==
    {ops \in [Users -> Op] :
        \A u \in Users : /\ ops[u] # "skip" => present[u]
                         /\ ops[u] = "remove" => u \in doubted}
HarmlessMessage == [bulk : BOOLEAN, ops : HarmlessOps]

\* The rows' reasons to remove a user are remembered.
RowsInv == \A u \in Users : (expired[u] \/ status[u] = 1) => u \in doubted

\* Who is being switched, and who is installed anywhere, has a row.
PresentInv ==
    /\ \A w \in Threads : pc[w] = "toggle" => present[subject[w]]
    /\ \A n \in Nodes : \A u \in installed[n] : present[u]

\* Whatever a thread sends, a connection carries or a pool still has to do is
\* harmless, however old it is.
HarmlessInv ==
    /\ message \in [Threads -> HarmlessMessage]
    /\ toAgent \in [Nodes -> Seq(HarmlessMessage)]
    /\ pool \in [Nodes -> Seq(HarmlessOps)]

\* While nothing races with a sync, its batch is alone in the pool and current,
\* and the users it is done with are as they should be.
Pending(n, u) == IF pool[n] = <<>> THEN "skip" ELSE pool[n][1][u]

CleanNode(n) ==
    /\ xrayUp[n] /\ Len(pool[n]) <= 1
    /\ \A u \in Users :
          /\ Pending(n, u) \in {"skip", SyncOp(u)}
          /\ Pending(n, u) = "skip" => (u \in installed[n] <=> u \in Due)

CleanInv == \A n \in Nodes : clean[n] => CleanNode(n)

IInv == TypeOK /\ RowsInv /\ PresentInv /\ HarmlessInv /\ CleanInv

=============================================================================
