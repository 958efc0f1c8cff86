------------------------------ MODULE ReadCache ------------------------------
(***************************************************************************)
(* The cached read of the room that one Pi process shares between its      *)
(* poll, its pulses, its widget and its inbox (readState, extension.ts):   *)
(* stat the file, answer from the cache if the identity is the cached one, *)
(* else load the content and stat it again for the cache.                  *)
(*                                                                         *)
(* A room file is its version: each save renames a new inode into place,   *)
(* so the version is also its identity.  Calls overlap at their awaits.    *)
(***************************************************************************)
EXTENDS Naturals

CONSTANTS
  Calls,       (* readState calls of one process that may be in flight     *)
  MaxVersion   (* bound: saves of the room, by anybody                     *)

ASSUME ReadCacheAssumption == MaxVersion \in Nat

VARIABLES
  file,       (* the version of the room file; 0 is no file                 *)
  cached,     (* the version whose content readCache holds                  *)
  identity,   (* the version whose stat readCache holds; 0 is no cache      *)
  pc,         (* the next file-system call of each readState                *)
  loaded,     (* the content each call holds: 0 is the empty room           *)
  since,      (* history: the file's version when the call began            *)
  torn,       (* history: versions cached under a later identity            *)
  answer      (* history: the last call that returned: [since, hit, room]   *)

cacheVars == <<file, cached, identity, pc, loaded, since, torn, answer>>

CacheInit ==
  /\ file = 0 /\ cached = 0 /\ identity = 0
  /\ pc = [c \in Calls |-> "idle"]
  /\ loaded = [c \in Calls |-> 0]
  /\ since = [c \in Calls |-> 0]
  /\ torn = {}
  /\ answer = [since |-> 0, hit |-> FALSE, room |-> 0]

(* A save by this process, by another session or by the node.               *)
Save ==
  /\ file < MaxVersion
  /\ file' = file + 1
  /\ UNCHANGED <<cached, identity, pc, loaded, since, torn, answer>>

(* Mutant of Hit: whatever is cached is good.                               *)
HitBlindly == file # 0 /\ identity # 0

(* There is a file, and its identity is the one in the cache.               *)
Hit == file # 0 /\ identity = file

(* The first stat: the cache answers, or the call goes on to load.          *)
Stat(c) ==
  /\ pc[c] = "idle"
  /\ since' = [since EXCEPT ![c] = file]
  /\ IF Hit
     THEN /\ answer' = [since |-> file, hit |-> TRUE, room |-> cached]
          /\ UNCHANGED pc
     ELSE /\ pc' = [pc EXCEPT ![c] = "load"]
          /\ UNCHANGED answer
  /\ UNCHANGED <<file, cached, identity, loaded, torn>>

(* Mutant of Load: without the catch, a missing file is no room at all.     *)
LoadRaw(c) ==
  /\ pc[c] = "load"
  /\ loaded' = [loaded EXCEPT ![c] = IF file = 0 THEN MaxVersion + 1 ELSE file]
  /\ pc' = [pc EXCEPT ![c] = "restat"]
  /\ UNCHANGED <<file, cached, identity, since, torn, answer>>

(* loadState: the content of the file, or an empty room.                    *)
Load(c) ==
  /\ pc[c] = "load"
  /\ loaded' = [loaded EXCEPT ![c] = file]
  /\ pc' = [pc EXCEPT ![c] = "restat"]
  /\ UNCHANGED <<file, cached, identity, since, torn, answer>>

(* Mutant of Fill: the identity that the first stat saw goes with whatever  *)
(* was loaded since.                                                        *)
FillFirstStat(c) ==
  /\ cached' = loaded[c]
  /\ identity' = since[c]

(* readCache is set from a stat taken now and the content loaded before, or *)
(* unset if there is still no file.                                         *)
Fill(c) ==
  /\ cached' = IF file = 0 THEN 0 ELSE loaded[c]
  /\ identity' = file

(* The second stat; the call returns what it loaded.                        *)
Restat(c) ==
  /\ pc[c] = "restat"
  /\ Fill(c)
  /\ torn' = IF loaded[c] # file THEN torn \cup {file} ELSE torn
  /\ answer' = [since |-> since[c], hit |-> FALSE, room |-> loaded[c]]
  /\ pc' = [pc EXCEPT ![c] = "idle"]
  /\ loaded' = [loaded EXCEPT ![c] = 0]
  /\ UNCHANGED <<file, since>>

Read(c) == Stat(c) \/ Load(c) \/ Restat(c)

CacheNext == Save \/ \E c \in Calls : Read(c)

CacheSpec == CacheInit /\ [][CacheNext]_cacheVars

-----------------------------------------------------------------------------

CacheTypeOK ==
  /\ file \in 0..MaxVersion /\ cached \in 0..MaxVersion /\ identity \in 0..MaxVersion
  /\ pc \in [Calls -> {"idle", "load", "restat"}]
  /\ loaded \in [Calls -> 0..MaxVersion] /\ since \in [Calls -> 0..MaxVersion]
  /\ torn \subseteq 0..MaxVersion
  /\ answer \in [since : 0..MaxVersion, hit : BOOLEAN, room : 0..MaxVersion]

(* A call that began after a save sees it, unless the save fell between the *)
(* load and the second stat of some call that filled the cache.             *)
AnswersAreFresh == answer.room >= answer.since \/ (answer.hit /\ answer.since \in torn)

(* Content is cached under the identity of its own version or a later one,  *)
(* never an earlier one, which would outlive a rewrite.                     *)
CachedNotAhead == cached <= identity /\ identity <= file
-----------------------------------------------------------------------------
(* What a comment says and the code does not do.                            *)

(* extension.ts: "the cache is validated by identity (inode, size, mtime)   *)
(* rather than trusted blindly": a call that begins after a save sees it.   *)
ReadsSeeTheFile == answer.room >= answer.since
=============================================================================
