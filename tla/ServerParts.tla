----------------------------- MODULE ServerParts -----------------------------
(* Two parts of the platform that share no state: the containers that start     *)
(* (Server) and the parts that read (Readers). A behaviour uses one of them, with *)
(* every start or every input it may have, while the other rests.               *)
EXTENDS Server, Readers

partsVars == <<vars, readersVars>>

----------------------------------------------------------------------------
(* A part at rest has no step to take. *)

\* The containers have ended, and nothing happens to them.
ContainersRest ==
  /\ deploy = CHOOSE d \in Deploys : TRUE
  /\ step = [c \in Containers |-> "exited"]
  /\ pending = [c \in Containers |-> {}] /\ failed = [c \in Containers |-> FALSE]
  /\ tx = [c \in Containers |-> NoFile]
  /\ lock = NoOne /\ ghosts = 0 /\ rows = {} /\ applied = [f \in AllFiles |-> 0] /\ up = TRUE
  /\ running = [c \in Containers |-> NoCheck] /\ req = [q \in Requests |-> NotAsking]
  /\ left = [kind \in DOMAIN Budget |-> 0]

\* Nothing is given to a reader.
ReadersRest == subject = "none" /\ given = <<>> /\ made = <<>> /\ IdleRequest

----------------------------------------------------------------------------

PartsInit ==
  \/ Init /\ ReadersRest
  \/ ContainersRest /\ ReadersInit

ContainersStep == Next /\ UNCHANGED readersVars
ReadersStep == ReadersNext /\ UNCHANGED vars
PartsNext == ContainersStep \/ ReadersStep

\* The fairness of the containers and of an upload request is theirs.
PartsSpec == PartsInit /\ [][PartsNext]_partsVars /\ ContainersFairness /\ RequestFairness
=============================================================================
