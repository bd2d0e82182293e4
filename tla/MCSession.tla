----------------------------- MODULE MCSession -----------------------------
(* Writers at the edges of the hook's buffers, with the code's own sizes. *)
EXTENDS ProvfsSession

Comm(n) == [root |-> FALSE, pid1 |-> FALSE, len |-> n]
Systemd == [root |-> TRUE, pid1 |-> TRUE, len |-> 7]
Pid1 == [root |-> FALSE, pid1 |-> TRUE, len |-> 4]
Var(k, n) == [key |-> k, len |-> n]

Ancestries ==
  {<<Systemd>>, <<Pid1>>, <<Comm(4), Pid1>>, <<Comm(3), Systemd>>,
   <<Comm(15), Comm(15), Comm(15), Comm(15), Pid1>>}

(* No variable, an empty one before a used one, each target filled twice,   *)
(* and a block that ends at or beyond what is scanned.                      *)
Environments ==
  {<<>>,
   <<Var("CLAUDE_TOOL", 0), Var("AGORABUS_SID", 8), Var("CLAUDE_TOOL", 6)>>,
   <<Var("CLAUDE_SESSION_ID", 60), Var("CLAUDE_TOOL", 80),
     Var("CLAUDE_TURN", 2), Var("CLAUDE_TURN", 3), Var("AGENTNS_INTENT", 9)>>,
   <<Var("PATH", 4077), Var("CLAUDE_TURN", 2)>>,
   <<Var("PATH", 4096), Var("CLAUDE_TOOL", 2)>>}

(* With the fields before it, a cwd ends well short of the buffer's end, so *)
(* near it that pid or uid fit only when short, or beyond it.               *)
Cwds == {0, 1, 40} \cup 112..119 \cup 184..189 \cup 228..250 \cup {4095}

MCCloses ==
  {c \in [writable : BOOLEAN, stampable : BOOLEAN, skipped : BOOLEAN,
          agentns : BOOLEAN, got : {0, 30, 8192}, env : Environments,
          ancestry : Ancestries, cwd : Cwds, pid : {1, 7}, uid : {1, 4}] :
     /\ (~c.writable \/ ~c.stampable \/ c.skipped) =>
          /\ ~c.agentns /\ c.got = 0 /\ c.env = <<>>
          /\ c.ancestry = <<Systemd>> /\ c.cwd = 1 /\ c.pid = 1 /\ c.uid = 1
     /\ c.agentns => c.cwd \in {1, 240}
     /\ c.got # 8192 => c.cwd \in {40, 236} /\ c.pid = 7}
=============================================================================
