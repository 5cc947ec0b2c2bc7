------------------------------- MODULE Router -------------------------------
(***************************************************************************)
(* Where a file operation, a command or a terminal runs.                   *)
(*                                                                         *)
(* DSH works on local paths.  The router looks a path up in the bindings   *)
(* of mirror directories; below a mirror it hands the operation to the     *)
(* execution world of the binding's node, at the remote path, and refuses  *)
(* it when there is no world.  There are two registries of worlds: one of  *)
(* SSH hosts and one of containers.  A container on a remote host has a    *)
(* world in both, because its docker commands go through the SSH world of  *)
(* the same node, so the SSH registry must be deaf to such nodes.          *)
(*                                                                         *)
(* Worlds are made on demand: ensure() waits for the node's credentials    *)
(* and registers, while the node may be removed.  What keeps a binding     *)
(* from a node that is being removed is WorkspaceBinding's; here it only   *)
(* sets the order of the steps.                                            *)
(*                                                                         *)
(* A path is a sequence of pieces of text, some of them separators, so     *)
(* that one mirror's name may begin with another's.                        *)
(***************************************************************************)
EXTENDS Naturals, Sequences

CONSTANTS Node,   \* nodes
          Slug,   \* names of workspaces, as pieces of text
          Remote, \* directories on a node, as pieces of text
          Caller, \* concurrent requests that need a world
          None    \* no request under way

VARIABLES
  kind,     \* kind[n]: "remote-ssh", "remote-docker" or "local-docker"
  listed,   \* nodes in the registry
  named,    \* those whose profile names a container
  removing, \* those pending removal
  bindings, \* workspace-bindings.json
  ssh,      \* nodes with a world in SshWorldRegistry
  docker,   \* nodes with a world in DockerWorldRegistry
  asked     \* asked[c]: what caller c waits for, or None

vars == <<kind, listed, named, removing, bindings, ssh, docker, asked>>

Kind == {"remote-ssh", "remote-docker", "local-docker"}
IsDocker(n) == kind[n] # "remote-ssh"

(* mirrorRoot() *)
Mirror(n, slug) == <<"/", n, "/">> \o slug

Binding == [root : UNION {{Mirror(n, s) : s \in Slug} : n \in Node}, node : Node,
            remote : Remote]

-----------------------------------------------------------------------------
(* WorkspaceBindingsStore *)

Bound(b) == {x \in bindings : x.root # b.root} \cup {b}

(* The path is the mirror, or goes on with a separator.                    *)
Below(p, b) ==
  \/ p = b.root
  \/ Len(p) > Len(b.root) /\ SubSeq(p, 1, Len(b.root) + 1) = Append(b.root, "/")

(* The deepest binding wins; what follows its mirror follows its directory.*)
Hit(p) ==
  LET under == {b \in bindings : Below(p, b)}
      best == CHOOSE b \in under : \A x \in under : Len(x.root) <= Len(b.root)
  IN  IF under = {} THEN {}
      ELSE {[node |-> best.node,
             path |-> best.remote \o SubSeq(p, Len(best.root) + 1, Len(p))]}

-----------------------------------------------------------------------------
(* WorldResolver *)

(* Wrong on purpose: the SSH registry answers for every node it knows.     *)
SshWorldAny(n) == n \in ssh

(* The SSH registry does not answer for the containers of the registry.    *)
SshWorld(n) == n \in ssh /\ ~(n \in listed /\ IsDocker(n))

(* The first registry that answers has the world.                          *)
World(n) ==
  IF SshWorld(n) THEN "host" ELSE IF n \in docker THEN "container" ELSE "none"

(* Where a path leads: to this machine, nowhere, or to a world at the      *)
(* remote path.                                                            *)
Route(p) ==
  IF Hit(p) = {} THEN [at |-> "local", path |-> p]
  ELSE LET hit == CHOOSE h \in Hit(p) : TRUE IN
       IF World(hit.node) = "none" THEN [at |-> "refused", path |-> p]
       ELSE [at |-> World(hit.node), node |-> hit.node, path |-> hit.path]

(* Every decorated file operation asks that first.  What a directory lists *)
(* is named by its place below the mirror, so that it is asked again.      *)
FileAt(p) == Route(p)
ListedAt(p, name) == Route(p \o <<"/", name>>)

(* A command or a terminal asks it of its directory; one without a         *)
(* directory runs here.                                                    *)
CommandAt(dir) == IF dir = None THEN Route(<<"/">>) ELSE Route(dir)

-----------------------------------------------------------------------------
(* Making worlds.  A caller asks for a node's world, and perhaps binds a   *)
(* mirror to it afterwards; container says which registry it asks.         *)

Call(n, container, goal, step) ==
  [node |-> n, container |-> container, goal |-> goal, step |-> step]

(* The worlds a node has once its SSH world and, if asked for, the world   *)
(* of its container are registered.                                        *)
Registered(n, container) ==
  /\ ssh' = IF kind[n] = "local-docker" THEN ssh ELSE ssh \cup {n}
  /\ docker' = IF container THEN docker \cup {n} ELSE docker

(* ensure(): a node of the right kind, with a container when one is asked  *)
(* for.  A world that exists is taken as it is; a new SSH world needs the  *)
(* credentials.                                                            *)
Ensure(c, n, container, goal) ==
  /\ asked[c] = None
  /\ n \in listed
  /\ container => IsDocker(n) /\ n \in named
  /\ ~container => kind[n] # "local-docker"
  /\ IF kind[n] = "local-docker" \/ n \in ssh
     THEN /\ asked' = [asked EXCEPT ![c] = Call(n, container, goal, "dir")]
          /\ Registered(n, container)
     ELSE /\ asked' = [asked EXCEPT ![c] = Call(n, container, goal, "secrets")]
          /\ UNCHANGED <<ssh, docker>>
  /\ UNCHANGED <<kind, listed, named, removing, bindings>>

(* POST /workspaces/bind asks the registry of the node's kind and prepares *)
(* the directory.                                                          *)
Bind(c, n, slug, remote) ==
  /\ n \notin removing
  /\ Ensure(c, n, IsDocker(n), [root |-> Mirror(n, slug), node |-> n, remote |-> remote])

(* At start, a world for every binding.                                    *)
Warmup(c, b) == Ensure(c, b.node, IsDocker(b.node), None)

(* A download from below a mirror.                                         *)
Download(c, b) ==
  /\ Hit(b.root) # {}
  /\ \E hit \in Hit(b.root) : Ensure(c, hit.node, IsDocker(hit.node), None)

(* The docker commands of a remote host need its SSH world alone.          *)
HostRunner(c, n) == kind[n] = "remote-docker" /\ Ensure(c, n, FALSE, None)

(* The credentials have been read: the worlds are registered, whatever has *)
(* become of the node.                                                     *)
Secrets(c) ==
  /\ asked[c] # None /\ asked[c].step = "secrets"
  /\ Registered(asked[c].node, asked[c].container)
  /\ asked' = [asked EXCEPT ![c].step = "dir"]
  /\ UNCHANGED <<kind, listed, named, removing, bindings>>

(* The directory is there: bind, unless the node is pending removal.       *)
Finish(c) ==
  /\ asked[c] # None /\ asked[c].step = "dir"
  /\ bindings' = IF asked[c].goal = None \/ asked[c].node \in removing THEN bindings
                 ELSE Bound(asked[c].goal)
  /\ asked' = [asked EXCEPT ![c] = None]
  /\ UNCHANGED <<kind, listed, named, removing, ssh, docker>>

(* The credentials, the connection or the directory fail.                  *)
Fail(c) ==
  /\ asked[c] # None
  /\ asked' = [asked EXCEPT ![c] = None]
  /\ UNCHANGED <<kind, listed, named, removing, bindings, ssh, docker>>

-----------------------------------------------------------------------------
(* The registry of nodes *)

(* A node is created, or comes back from a peer.                           *)
Add(n) ==
  /\ n \notin listed
  /\ listed' = listed \cup {n} /\ removing' = removing \ {n}
  /\ named' = named \ {n}
  /\ UNCHANGED <<kind, bindings, ssh, docker, asked>>

(* A container is provisioned for it.                                      *)
Name(n) ==
  /\ n \in listed /\ IsDocker(n)
  /\ named' = named \cup {n}
  /\ UNCHANGED <<kind, listed, removing, bindings, ssh, docker, asked>>

(* A removal begins; a local one may be given up.                          *)
StartRemove(n) ==
  /\ n \in listed /\ n \notin removing
  /\ removing' = removing \cup {n}
  /\ UNCHANGED <<kind, listed, named, bindings, ssh, docker, asked>>

GiveUp(n) ==
  /\ n \in removing /\ removing' = removing \ {n}
  /\ UNCHANGED <<kind, listed, named, bindings, ssh, docker, asked>>

(* The profile goes; an imported removal takes the stale bindings first.   *)
Unlist(n) ==
  /\ n \in removing /\ n \in listed
  /\ listed' = listed \ {n}
  /\ bindings' \in {bindings, {b \in bindings : b.node # n}}
  /\ UNCHANGED <<kind, named, removing, ssh, docker, asked>>

(* The credentials are gone, then the worlds.                              *)
Drop(n) ==
  /\ n \in removing /\ n \notin listed
  /\ ssh' = ssh \ {n} /\ docker' = docker \ {n} /\ removing' = removing \ {n}
  /\ UNCHANGED <<kind, listed, named, bindings, asked>>

(* The process restarts with its files only.                               *)
Restart ==
  /\ ssh' = {} /\ docker' = {} /\ asked' = [c \in Caller |-> None]
  /\ UNCHANGED <<kind, listed, named, removing, bindings>>

-----------------------------------------------------------------------------
Init ==
  /\ kind \in [Node -> Kind]
  /\ listed = {} /\ named = {} /\ removing = {} /\ bindings = {}
  /\ ssh = {} /\ docker = {} /\ asked = [c \in Caller |-> None]

Next ==
  \/ \E c \in Caller :
       \/ \E n \in Node, slug \in Slug, remote \in Remote : Bind(c, n, slug, remote)
       \/ \E b \in bindings : Warmup(c, b) \/ Download(c, b)
       \/ \E n \in Node : HostRunner(c, n)
       \/ Secrets(c) \/ Finish(c) \/ Fail(c)
  \/ \E n \in Node :
       Add(n) \/ Name(n) \/ StartRemove(n) \/ GiveUp(n) \/ Unlist(n) \/ Drop(n)
  \/ Restart

Spec == Init /\ [][Next]_vars

-----------------------------------------------------------------------------
TypeOK ==
  /\ kind \in [Node -> Kind]
  /\ listed \subseteq Node /\ named \subseteq Node /\ removing \subseteq Node
  /\ ssh \subseteq Node /\ docker \subseteq Node
  /\ bindings \subseteq Binding
  /\ \A c \in Caller : asked[c] = None \/ asked[c].node \in Node

(* An operation below a mirror never runs on this machine: it is refused,  *)
(* or runs on the binding's node at the same place below its directory;    *)
(* and while the node is listed, a container's operations run in the       *)
(* container and never on the host it is on.  The names of other mirrors,  *)
(* requests that stop half way, removals and restarts do not change that.  *)
RunsWhereBound ==
  LET right(where, b, rest) ==
        /\ where.at # "local"
        /\ where.at # "refused" =>
             /\ where.node = b.node /\ where.path = b.remote \o rest
             /\ b.node \in listed =>
                  where.at = IF IsDocker(b.node) THEN "container" ELSE "host"
  IN  \A b \in bindings :
        /\ right(FileAt(b.root), b, <<>>) /\ right(CommandAt(b.root), b, <<>>)
        /\ right(ListedAt(b.root, "f"), b, <<"/", "f">>)
        /\ CommandAt(None).at = "local"
=============================================================================
