------------------------------- MODULE Deploy -------------------------------
(***************************************************************************)
(* What a deployment leaves on the device for nomothetic and the plugin:   *)
(* the routine catalogue (src/autonomon/routines/publish.py) and the       *)
(* plugin's key (src/autonomon/plugin_auth.py, generate-key and register), *)
(* in the order of scripts/deploy.sh.  A deployment may die anywhere and   *)
(* be repeated, and two may overlap.  A catalogue is the number of the     *)
(* deployment that wrote it, and so is a key.                              *)
(*                                                                         *)
(* The script's other steps on a running device are left out: it removes   *)
(* and rebuilds the .venv the catalogue points into, replaces the plugin's *)
(* env file, reloads nomothetic before it registers, and rolls the tree    *)
(* back on an error.  The properties speak of the catalogue and the keys.  *)
(*                                                                         *)
(* The catalogue's temporary file has one name for all: tmp is what that   *)
(* name refers to, and handle is the file a deployer has open, which other *)
(* deployers may rename or replace meanwhile.                              *)
(***************************************************************************)
EXTENDS Naturals

CONSTANTS
  Nothing,
  Empty, Mixed, (* a truncated file, and one that two writers have written   *)
  Deployers,
  MaxDeploys,   (* bound on the deployments begun                            *)
  Tries         (* how often deploy.sh tries to register                     *)

ASSUME DeployAssumption ==
  /\ MaxDeploys \in Nat /\ Tries \in Nat \ {0}
  /\ Nothing \notin Nat /\ Empty \notin Nat /\ Mixed \notin Nat
  /\ Nothing \notin {Empty, Mixed, "tmp", "target", "gone"}

VARIABLES
  begun,        (* the number of deployments begun                           *)
  at,           (* per deployer: the step it comes to next, or "idle"        *)
  mine,         (* per deployer: the number of its deployment                *)
  handle,       (* per deployer: its open file: "tmp", "target" or "gone"    *)
  loaded,       (* per deployer: the key register has loaded                 *)
  tries,        (* per deployer: registrations tried                         *)
  tmp, target,  (* the two names: Nothing, Empty, Mixed or a catalogue       *)
  key,          (* the key file                                              *)
  registered,   (* the key nomothetic knows                                  *)
  plugin,       (* the key a running plugin has loaded                       *)
  alone,        (* history, per deployer: no other deployment overlapped     *)
  overlapped,   (* history: some deployments did                             *)
  settled       (* history: one that ran alone was the last and succeeded    *)

fileVars == <<tmp, target, handle>>
keyVars == <<key, loaded, tries, registered>>
historyVars == <<begun, mine, alone, overlapped, settled>>
deployVars == <<at, fileVars, keyVars, plugin, historyVars>>

DeployInit ==
  /\ begun = 0
  /\ at = [d \in Deployers |-> "idle"] /\ mine = [d \in Deployers |-> 0]
  /\ handle = [d \in Deployers |-> Nothing] /\ loaded = [d \in Deployers |-> Nothing]
  /\ tries = [d \in Deployers |-> 0]
  /\ tmp = Nothing /\ target = Nothing
  /\ key = Nothing /\ registered = Nothing /\ plugin = Nothing
  /\ alone = [d \in Deployers |-> FALSE] /\ overlapped = FALSE /\ settled = FALSE

Goes(d, from, to) == at[d] = from /\ at' = [at EXCEPT ![d] = to]

Begin(d) ==
  /\ begun < MaxDeploys /\ begun' = begun + 1
  /\ Goes(d, "idle", "open")
  /\ mine' = [mine EXCEPT ![d] = begun']
  /\ tries' = [tries EXCEPT ![d] = 0]
  /\ LET others == {e \in Deployers \ {d} : at[e] # "idle"} IN
       /\ alone' = [e \in Deployers |-> IF e = d THEN others = {}
                                        ELSE alone[e] /\ e \notin others]
       /\ overlapped' = (overlapped \/ others # {})
  /\ settled' = FALSE
  /\ UNCHANGED <<fileVars, key, loaded, registered, plugin>>

-----------------------------------------------------------------------------
(* publish: write_text opens the temporary file, truncating it, and writes.  *)
OpenTarget(d) ==   (* mutant: the catalogue is written in place *)
  /\ Goes(d, "open", "write")
  /\ target' = Empty /\ tmp' = Empty /\ handle' = [handle EXCEPT ![d] = "target"]
  /\ UNCHANGED <<keyVars, plugin, historyVars>>

Open(d) ==
  /\ Goes(d, "open", "write")
  /\ tmp' = Empty /\ handle' = [handle EXCEPT ![d] = "tmp"]
  /\ UNCHANGED <<target, keyVars, plugin, historyVars>>

(* Over another writer's text it depends on the lengths what is left of that.*)
Over(content, d) == IF content = Empty THEN {mine[d]} ELSE {mine[d], Mixed}

Write(d) ==
  /\ Goes(d, "write", "replace")
  /\ IF handle[d] = "tmp" THEN tmp' \in Over(tmp, d) ELSE UNCHANGED tmp
  /\ IF handle[d] = "target" THEN target' \in Over(target, d) ELSE UNCHANGED target
  /\ handle' = [handle EXCEPT ![d] = Nothing]
  /\ UNCHANGED <<keyVars, plugin, historyVars>>

KeepPublished(d) ==   (* mutant: a catalogue that is there is not replaced *)
  /\ tmp # Nothing
  /\ Goes(d, "replace", "verify")
  /\ target' = IF target = Nothing THEN tmp ELSE target
  /\ tmp' = Nothing
  /\ UNCHANGED <<handle, keyVars, plugin, historyVars>>

(* replace: the open files keep the names' new places.                       *)
Replace(d) ==
  /\ tmp # Nothing
  /\ Goes(d, "replace", "verify")
  /\ target' = tmp /\ tmp' = Nothing
  /\ handle' = [e \in Deployers |-> CASE handle[e] = "tmp" -> "target"
                                      [] handle[e] = "target" -> "gone"
                                      [] OTHER -> handle[e]]
  /\ UNCHANGED <<keyVars, plugin, historyVars>>

(* The temporary file is gone (FileNotFoundError): the deployment fails.     *)
ReplaceFails(d) ==
  /\ tmp = Nothing
  /\ Goes(d, "replace", "idle")
  /\ UNCHANGED <<fileVars, keyVars, plugin, historyVars>>

Whole(content) == content \in 1 .. MaxDeploys

(* deploy.sh reads the catalogue back, and fails if that is not JSON.        *)
Verify(d) ==
  /\ Goes(d, "verify", IF Whole(target) THEN "keygen" ELSE "idle")
  /\ UNCHANGED <<fileVars, keyVars, plugin, historyVars>>

-----------------------------------------------------------------------------
LoadOnly(d) ==   (* mutant: a missing key is not noticed *)
  /\ Goes(d, "keygen", "register")
  /\ UNCHANGED <<fileVars, keyVars, plugin, historyVars>>

(* generate_keypair: a key that is there is kept.                            *)
CheckKey(d) ==
  /\ Goes(d, "keygen", IF key # Nothing THEN "register" ELSE "rename")
  /\ UNCHANGED <<fileVars, keyVars, plugin, historyVars>>

(* The temporary file of the key has a name of its own (mkstemp).            *)
RenameKey(d) ==
  /\ Goes(d, "rename", "register")
  /\ key' = mine[d]
  /\ UNCHANGED <<fileVars, loaded, tries, registered, plugin, historyVars>>

(* register: the key is loaded from its file and its public half posted.     *)
LoadKey(d) ==
  /\ Goes(d, "register", "post")
  /\ loaded' = [loaded EXCEPT ![d] = key]
  /\ UNCHANGED <<fileVars, key, tries, registered, plugin, historyVars>>

Registered(d) ==
  /\ Goes(d, "post", "idle")
  /\ registered' = loaded[d]
  /\ settled' = alone[d]
  /\ UNCHANGED <<fileVars, key, loaded, tries, plugin, begun, mine, alone, overlapped>>

(* No 200, whether or not nomothetic took the key: deploy.sh tries again,    *)
(* and after its last try ends with a warning.                               *)
RegisterFails(d) ==
  /\ Goes(d, "post", IF tries[d] + 1 < Tries THEN "register" ELSE "idle")
  /\ tries' = [tries EXCEPT ![d] = @ + 1]
  /\ registered' \in {registered, loaded[d]}
  /\ UNCHANGED <<fileVars, key, loaded, plugin, historyVars>>

(* The deployment dies.                                                      *)
Crash(d) ==
  /\ at[d] # "idle" /\ at' = [at EXCEPT ![d] = "idle"]
  /\ handle' = [handle EXCEPT ![d] = Nothing]
  /\ UNCHANGED <<tmp, target, keyVars, plugin, historyVars>>

-----------------------------------------------------------------------------
(* nomothetic finds the program in the catalogue and starts it; the program  *)
(* loads its key for as long as it runs (cli.py, _resolve_auth).             *)
Launch ==
  /\ plugin = Nothing /\ Whole(target) /\ key # Nothing
  /\ plugin' = key
  /\ UNCHANGED <<at, fileVars, keyVars, historyVars>>

PluginExits ==
  /\ plugin # Nothing /\ plugin' = Nothing
  /\ UNCHANGED <<at, fileVars, keyVars, historyVars>>

Step(d) ==
  \/ Begin(d)
  \/ Open(d)
  \/ Write(d)
  \/ Replace(d)
  \/ ReplaceFails(d)
  \/ Verify(d)
  \/ CheckKey(d)
  \/ RenameKey(d)
  \/ LoadKey(d)
  \/ Registered(d)
  \/ RegisterFails(d)
  \/ Crash(d)

DeployNext ==
  \/ \E d \in Deployers : Step(d)
  \/ Launch
  \/ PluginExits

DeploySpec == DeployInit /\ [][DeployNext]_deployVars

-----------------------------------------------------------------------------
Catalogues == 1 .. MaxDeploys
Keys == 1 .. MaxDeploys
Steps == {"idle", "open", "write", "replace", "verify", "keygen", "rename", "register", "post"}

(* The type invariant.                                                       *)
DeployTypeOK ==
  /\ begun \in 0 .. MaxDeploys
  /\ at \in [Deployers -> Steps] /\ mine \in [Deployers -> 0 .. begun]
  /\ handle \in [Deployers -> {Nothing, "tmp", "target", "gone"}]
  /\ loaded \in [Deployers -> Keys \cup {Nothing}]
  /\ tries \in [Deployers -> 0 .. Tries]
  /\ {tmp, target} \subseteq Catalogues \cup {Nothing, Empty, Mixed}
  /\ {key, registered, plugin} \subseteq Keys \cup {Nothing}
  /\ alone \in [Deployers -> BOOLEAN] /\ overlapped \in BOOLEAN /\ settled \in BOOLEAN
  /\ \A d \in Deployers :
       /\ handle[d] # Nothing => at[d] = "write"
       /\ at[d] \in {"register", "post"} => key # Nothing
       /\ at[d] = "post" => loaded[d] # Nothing

(* While deployments do not overlap, nomothetic never reads a half-written   *)
(* catalogue, wherever a deployment dies (publish: write to a temporary      *)
(* file, then replace).                                                      *)
ReadersSeeWhole == ~overlapped => target = Nothing \/ Whole(target)

(* While deployments do not overlap, deploying again changes no key under a  *)
(* running plugin: the registered key is the one it has loaded, or none is   *)
(* registered yet (generate_keypair keeps the registered identity stable).   *)
StillWelcome ==
  ~overlapped /\ plugin # Nothing /\ registered # Nothing => plugin = registered

(* While deployments do not overlap, wherever one dies and however often it  *)
(* is repeated, the catalogue is never half written and the key a running    *)
(* plugin has loaded stays the registered one.  No more is promised: the     *)
(* steps left out above do reach what runs.                                  *)
CatalogueAndKeyHold == ReadersSeeWhole /\ StillWelcome

(* Whatever catalogue and keys earlier deployments left by dying or          *)
(* overlapping, one that runs alone and succeeds puts them right: its        *)
(* catalogue is published, and the registered key is the one in the file.    *)
SettledIsUsable ==
  settled => target = begun /\ key # Nothing /\ registered = key
=============================================================================
