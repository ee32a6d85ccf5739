------------------------------- MODULE MCHost -------------------------------
(* The agent's mirror terminals, by name and one by one, its new versions,  *)
(* and the server's feed of events.  They share no variable, and a          *)
(* behaviour moves one of them.                                             *)
EXTENDS MirrorRegistry, MirrorStream, SelfUpdate, MonitorFeed

VARIABLE part

MCInit == /\ RegistryInit /\ StreamInit /\ UpdateInit /\ FeedInit
          /\ part \in {"registry", "stream", "update", "feed"}
MCNext ==
    /\ UNCHANGED part
    /\ \/ part = "registry" /\ RegistryNext /\ UNCHANGED <<zvars, uvars, mvars>>
       \/ part = "stream"   /\ StreamNext /\ UNCHANGED <<gvars, uvars, mvars>>
       \/ part = "update"   /\ UpdateNext /\ UNCHANGED <<gvars, zvars, mvars>>
       \/ part = "feed"     /\ FeedNext /\ UNCHANGED <<gvars, zvars, uvars>>
MCSpec == MCInit /\ [][MCNext]_<<gvars, zvars, uvars, mvars, part>>
=============================================================================
