------------------------------- MODULE MCMcp -------------------------------
(* What a tool call of the MCP server goes through, beside the tables of    *)
(* McpSessions: what is decided of a command, a file reached by its name,   *)
(* the connection, a resident shell, a terminal's buffer.  They share no    *)
(* variable, and a behaviour moves one of them.                             *)
EXTENDS Policy, McpFiles, SshPool, ShellExec, Terminal

VARIABLE part

\* One segment with all there may be in it, and two plain ones.
MCPlain == [rm : {"no"}, code : {"none"}, meta : BOOLEAN, allowed : BOOLEAN]
MCSegs == {<<>>} \cup {<<s>> : s \in [rm : {"no", "files", "root"}, code : {"none", "data", "denied"},
                                       meta : BOOLEAN, allowed : BOOLEAN]}
          \cup {<<s, t>> : s \in MCPlain, t \in MCPlain}
MCCommands == [segs : MCSegs, raw : SUBSET Hit, plain : SUBSET Hit, ask : BOOLEAN, path : BOOLEAN]
MCStdins == {NoStdin} \cup [segs : {<<s>> : s \in MCPlain}, raw : {{}}, plain : {{}, {"quoted"}, Hit},
                            ask : BOOLEAN, path : {FALSE}]

\* On this file system TOKEN is token, and KEY is key.
MCSpells == [r \in Real |-> CASE r = "TOKEN" -> "token" [] r = "KEY" -> "key" [] OTHER -> r]

MCInit == /\ PolicyInit /\ FilesInit /\ PoolInit /\ ShellInit /\ TerminalInit
          /\ part \in {"policy", "files", "pool", "shell", "terminal"}
          /\ part # "files" => link = [p \in Path |-> "work"] /\ meta.protect = {} /\ meta.roots = {}
MCNext ==
    /\ UNCHANGED part
    /\ \/ part = "policy"   /\ PolicyNext /\ UNCHANGED <<fvars, pvars, xvars, tvars>>
       \/ part = "files"    /\ FilesNext /\ UNCHANGED <<asked, pvars, xvars, tvars>>
       \/ part = "pool"     /\ PoolNext /\ UNCHANGED <<asked, fvars, xvars, tvars>>
       \/ part = "shell"    /\ ShellNext /\ UNCHANGED <<asked, fvars, pvars, tvars>>
       \/ part = "terminal" /\ TerminalNext /\ UNCHANGED <<asked, fvars, pvars, xvars>>
MCSpec == MCInit /\ [][MCNext]_<<asked, fvars, pvars, xvars, tvars, part>>
=============================================================================
