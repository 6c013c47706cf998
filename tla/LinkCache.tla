----------------------------- MODULE LinkCache -----------------------------
(***************************************************************************)
(* The link cache (toolchain/ccwld/cache/ccwld_cache.c) as ccwld_link_run  *)
(* uses it: processes that link the same plan with the same --cache-dir,   *)
(* each into its own output, while the files they read are rebuilt.        *)
(*                                                                         *)
(* The contents of a file are a version number, and a link is a function   *)
(* of the versions it loaded: an image is the function from files to them. *)
(* The files of Keyed are the inputs whose path opens as the plan gives    *)
(* it, so that hash_file reads them; the other files the link reads are    *)
(* inputs found through a search path and plugins, which enter the key by  *)
(* their name alone.                                                       *)
(*                                                                         *)
(* Some errors of the disk go unnoticed: hash_file takes a file that it    *)
(* cannot read for one with other contents, copy_file a read error for the *)
(* end of the file, and the writer of the output does not ask whether the  *)
(* last bytes were written when it closes the file.                        *)
(***************************************************************************)
EXTENDS Naturals, FiniteSets

CONSTANTS
  Links,       \* the processes
  Files,       \* what a link reads
  Keyed,       \* the files whose contents are in the key
  MaxVersion,  \* bound: versions of a file
  MaxRuns      \* bound: links that follow the first of each process

ASSUME CacheAssumption ==
  /\ Keyed \subseteq Files
  /\ MaxVersion \in Nat /\ MaxRuns \in Nat

VARIABLES
  content,  \* the version of every file on disk
  pc,       \* where each link is in ccwld_link_run
  runs,     \* how many links were started after the first of each process
  key,      \* what ccwld_cache_key has hashed so far: file -> version
  img,      \* what the load phase has read so far: file -> version
  out,      \* the output file of each link
  src,      \* the file a copy reads from, opened: its contents
  tmp,      \* the temporary file <key>.tmp<pid> of each link
  cache,    \* the directory: key -> file
  moved,    \* history: links between whose hash and load of a file it changed
  raced,    \* history: the keys such links stored an image under
  unnoticed \* history: whether bytes were lost and nobody noticed

history == <<moved, raced, unnoticed>>

linkVars == <<content, pc, runs, key, img, out, src, tmp, cache, moved, raced, unnoticed>>

(* A file: the image it is of and how many of its bytes are there.  They    *)
(* are "open" while it is being written (and for good when the writer dies  *)
(* or gives up), then "all" or, after a loss that nobody noticed, "short".  *)
FileOf(image, bytes) == [image |-> image, bytes |-> bytes]

Bytes == {"open", "short", "all"}

Nothing == [f \in {} |-> 0]

(* No file yet, or one that fopen(to, "wb") has just truncated.             *)
NoFile == FileOf(Nothing, "open")

Extend(m, f, v) == [g \in (DOMAIN m) \cup {f} |-> IF g = f THEN v ELSE m[g]]

Version == 0 .. MaxVersion

(* What is hashed for a file that is missing or cannot be read to its end.  *)
Unread == MaxVersion + 1

Ended == {"done", "failed"}

CacheInit ==
  /\ content = [f \in Files |-> 0]
  /\ pc = [l \in Links |-> "key"] /\ runs = 0
  /\ key = [l \in Links |-> Nothing] /\ img = [l \in Links |-> Nothing]
  /\ out = [l \in Links |-> NoFile] /\ tmp = [l \in Links |-> NoFile]
  /\ src = [l \in Links |-> NoFile]
  /\ cache = [k \in {} |-> NoFile]
  /\ moved = {} /\ raced = {} /\ unnoticed = FALSE

Goes(l, from, to) == pc[l] = from /\ pc' = [pc EXCEPT ![l] = to]

(* The process ends and its memory with it; "failed" is also a process that *)
(* was killed.                                                              *)
Ends(l, how) ==
  /\ pc' = [pc EXCEPT ![l] = how]
  /\ key' = [key EXCEPT ![l] = Nothing] /\ img' = [img EXCEPT ![l] = Nothing]
  /\ src' = [src EXCEPT ![l] = NoFile]
  /\ moved' = moved \ {l}

----------------------------------------------------------------------------
(* The world: a file is rebuilt.                                            *)
Rebuild(f) ==
  /\ content[f] < MaxVersion
  /\ content' = [content EXCEPT ![f] = @ + 1]
  /\ moved' = moved \cup {l \in Links : f \in (DOMAIN key[l]) \ DOMAIN img[l]}
  /\ UNCHANGED <<pc, runs, key, img, out, src, tmp, cache, raced, unnoticed>>

(* ccwld_cache_key: hash_file reads one input after the other.              *)
hash_file(l, f) ==
  /\ pc[l] = "key" /\ f \in Keyed \ DOMAIN key[l]
  /\ \E v \in {content[f], Unread} : key' = [key EXCEPT ![l] = Extend(@, f, v)]
  /\ UNCHANGED <<content, pc, runs, img, out, src, tmp, cache, history>>

ccwld_cache_key(l) ==
  /\ DOMAIN key[l] = Keyed
  /\ Goes(l, "key", "lookup")
  /\ UNCHANGED <<content, runs, key, img, out, src, tmp, cache, history>>

(* A hit: the entry is opened and the output truncated.                     *)
ccwld_cache_lookup(l) ==
  /\ key[l] \in DOMAIN cache
  /\ Goes(l, "lookup", "restore")
  /\ src' = [src EXCEPT ![l] = cache[key[l]]]
  /\ out' = [out EXCEPT ![l] = NoFile]
  /\ UNCHANGED <<content, runs, key, img, tmp, cache, history>>

(* The end of copy_file: what was read is there, which a read error cuts.   *)
Copied(from, cut) == FileOf(from.image, IF cut THEN "short" ELSE from.bytes)

Restored(l) ==
  /\ pc[l] = "restore" /\ Ends(l, "done")
  /\ \E cut \in BOOLEAN : /\ out' = [out EXCEPT ![l] = Copied(src[l], cut)]
                          /\ unnoticed' = (unnoticed \/ cut)
  /\ UNCHANGED <<content, runs, tmp, cache, raced>>

\* Mutant: a link waits for the one that links the same plan.
WaitingMiss(l) ==
  /\ key[l] \notin DOMAIN cache
  /\ \A m \in Links \ {l} : pc[m] \in Ended \/ key[m] # key[l]
  /\ Goes(l, "lookup", "load")
  /\ UNCHANGED <<content, runs, key, img, out, src, tmp, cache, history>>

Miss(l) ==
  /\ key[l] \notin DOMAIN cache
  /\ Goes(l, "lookup", "load")
  /\ UNCHANGED <<content, runs, key, img, out, src, tmp, cache, history>>

(* The pipeline reads every file again.                                     *)
ccwld_phase_load(l, f) ==
  /\ pc[l] = "load" /\ f \in Files \ DOMAIN img[l]
  /\ img' = [img EXCEPT ![l] = Extend(@, f, content[f])]
  /\ UNCHANGED <<content, pc, runs, key, out, src, tmp, cache, history>>

(* ccwld_emit_object: the output is opened, written, closed whether or not  *)
(* the bytes still buffered can be written.                                 *)
EmitOpen(l) ==
  /\ DOMAIN img[l] = Files
  /\ Goes(l, "load", "emit")
  /\ out' = [out EXCEPT ![l] = NoFile]
  /\ UNCHANGED <<content, runs, key, img, src, tmp, cache, history>>

ccwld_emit_object(l) ==
  /\ Goes(l, "emit", "store")
  /\ \E bytes \in {"short", "all"} :
       /\ out' = [out EXCEPT ![l] = FileOf(img[l], bytes)]
       /\ unnoticed' = (unnoticed \/ bytes = "short")
  /\ UNCHANGED <<content, runs, key, img, src, tmp, cache, moved, raced>>

\* Mutant: the entry itself is opened for writing.
DirectStoreOpen(l) ==
  /\ Goes(l, "store", "copy")
  /\ src' = [src EXCEPT ![l] = out[l]]
  /\ cache' = Extend(cache, key[l], NoFile)
  /\ UNCHANGED <<content, runs, key, img, out, tmp, history>>

(* ccwld_cache_store: the output is copied to the temporary file, which is  *)
(* renamed onto the entry.                                                  *)
StoreOpen(l) ==
  /\ Goes(l, "store", "copy")
  /\ src' = [src EXCEPT ![l] = out[l]]
  /\ tmp' = [tmp EXCEPT ![l] = NoFile]
  /\ UNCHANGED <<content, runs, key, img, out, cache, history>>

StoreCopy(l) ==
  /\ Goes(l, "copy", "rename")
  /\ \E cut \in BOOLEAN : /\ tmp' = [tmp EXCEPT ![l] = Copied(src[l], cut)]
                          /\ unnoticed' = (unnoticed \/ cut)
  /\ UNCHANGED <<content, runs, key, img, out, src, cache, moved, raced>>

ccwld_cache_store(l) ==
  /\ pc[l] = "rename" /\ Ends(l, "done")
  /\ cache' = Extend(cache, key[l], tmp[l])
  /\ tmp' = [tmp EXCEPT ![l] = NoFile]
  /\ raced' = IF l \in moved THEN raced \cup {key[l]} ELSE raced
  /\ UNCHANGED <<content, runs, out, unnoticed>>

(* A store that fails, at any of its steps, is a warning.                   *)
StoreFails(l) ==
  /\ pc[l] \in {"store", "copy", "rename"} /\ Ends(l, "done")
  /\ tmp' = IF pc[l] = "rename" THEN [tmp EXCEPT ![l] = NoFile] ELSE tmp
  /\ UNCHANGED <<content, runs, out, cache, raced, unnoticed>>

\* Mutant: a copy that failed is taken for a hit.
SilentFails(l) ==
  /\ pc[l] \in {"load", "restore", "emit"}
  /\ Ends(l, IF pc[l] = "restore" THEN "done" ELSE "failed")
  /\ UNCHANGED <<content, runs, out, tmp, cache, raced, unnoticed>>

(* The link fails (a bad input, a full disk under the output or the copy).  *)
Fails(l) ==
  /\ pc[l] \in {"load", "restore", "emit"} /\ Ends(l, "failed")
  /\ UNCHANGED <<content, runs, out, tmp, cache, raced, unnoticed>>

Killed(l) ==
  /\ pc[l] \notin Ended /\ Ends(l, "failed")
  /\ UNCHANGED <<content, runs, out, tmp, cache, raced, unnoticed>>

(* The same command once more, over what is left of the last time.          *)
Again(l) ==
  /\ pc[l] \in Ended /\ runs < MaxRuns
  /\ pc' = [pc EXCEPT ![l] = "key"] /\ runs' = runs + 1
  /\ UNCHANGED <<content, key, out, img, src, tmp, cache, history>>

----------------------------------------------------------------------------
Step(l) ==
  \/ \E f \in Files : hash_file(l, f) \/ ccwld_phase_load(l, f)
  \/ ccwld_cache_key(l) \/ ccwld_cache_lookup(l) \/ Restored(l) \/ Miss(l)
  \/ EmitOpen(l) \/ ccwld_emit_object(l)
  \/ StoreOpen(l) \/ StoreCopy(l) \/ ccwld_cache_store(l) \/ StoreFails(l) \/ Fails(l)

CacheNext == (\E f \in Files : Rebuild(f)) \/ (\E l \in Links : Step(l) \/ Killed(l) \/ Again(l))

(* A process that is not killed is scheduled.                               *)
CacheSpec == CacheInit /\ [][CacheNext]_linkVars /\ \A l \in Links : WF_linkVars(Step(l))

----------------------------------------------------------------------------
Pcs == {"key", "lookup", "restore", "load", "emit", "store", "copy", "rename"} \cup Ended

MapOver(m, S, V) == DOMAIN m \subseteq S /\ \A f \in DOMAIN m : m[f] \in V

FileOK(file) ==
  /\ DOMAIN file = {"image", "bytes"}
  /\ MapOver(file.image, Files, Version)
  /\ file.bytes \in Bytes

(* Types: keys cover the files that are hashed, and an entry is filed under *)
(* a complete one (ccwld_cache_key, ccwld_cache_store).                     *)
CacheTypeOK ==
  /\ content \in [Files -> Version] /\ pc \in [Links -> Pcs] /\ runs \in 0 .. MaxRuns
  /\ \A l \in Links : /\ MapOver(key[l], Keyed, Version \cup {Unread})
                      /\ MapOver(img[l], Files, Version)
                      /\ FileOK(out[l]) /\ FileOK(src[l]) /\ FileOK(tmp[l])
  /\ \A k \in DOMAIN cache : FileOK(cache[k]) /\ DOMAIN k = Keyed
  /\ moved \subseteq Links /\ raced \subseteq DOMAIN cache /\ unnoticed \in BOOLEAN

(* A file that was written to its end, of an image of every file.  Bytes    *)
(* are missing only where a loss went unnoticed.                            *)
WrittenOut(file) ==
  /\ file.bytes # "open" /\ DOMAIN file.image = Files
  /\ file.bytes = "short" => unnoticed

(* Whatever is killed, fails or runs at the same time, an entry of the      *)
(* cache is a finished image: what is under its key was written to its end  *)
(* before the rename (ccwld_cache_store; the temporary file).               *)
EntryWhole == \A k \in DOMAIN cache : WrittenOut(cache[k])

(* An entry holds the versions its key names, unless a keyed file changed   *)
(* between the hash and the load of a link that stored it, or could not be  *)
(* read for the hash: the two reads are the only way to a wrong entry       *)
(* (ccwld_link_run).                                                        *)
EntryKeyed ==
  \A k \in DOMAIN cache :
    k \in raced \/ \A f \in Keyed : k[f] = Unread \/ cache[k].image[f] = k[f]

(* A link that reports success has left a finished output, restored or      *)
(* linked, and it is the image of a state of each file that the run could   *)
(* see: what fails on the way and is noticed is no success (ccwld_link_run). *)
DoneWhole ==
  \A l \in Links :
    pc[l] = "done" => WrittenOut(out[l]) /\ \A f \in Files : out[l].image[f] <= content[f]

(* Every link ends, also when it lost the race for the entry.               *)
LinksEnd == \A l \in Links : []<>(pc[l] \in Ended)

(* With any number of links at once and whatever is killed or fails, what is *)
(* in the cache is finished and belongs to its key, but for the known race  *)
(* and the files that could not be read.                                    *)
CacheSound == CacheTypeOK /\ EntryWhole /\ EntryKeyed

=============================================================================
