------------------------------ MODULE MappedFile ------------------------------
(***************************************************************************)
(* lob/mapped_file.hpp: acquiring a read-only view of a file in several    *)
(* steps, each of which may fail and then has to give back what the steps  *)
(* before it took, since no destructor runs for an object whose            *)
(* constructor throws.  Both halves of the #if are modelled.               *)
(*                                                                         *)
(* The operating system is external: any step may fail, and mapping an     *)
(* empty file does.                                                        *)
(***************************************************************************)
EXTENDS Integers

VARIABLES
  platform,  \* the half that was compiled: "posix" or "windows"
  file,      \* the step the constructor is at, "mapped", "threw" or "destroyed"
  held       \* how many of each resource the process holds

fileVars == <<platform, file, held>>

Resources == {"file", "mapping", "view"}

Acquire(resource) == held' = [held EXCEPT ![resource] = @ + 1]
Release(some) == held' = [r \in Resources |-> IF r \in some THEN held[r] - 1 ELSE held[r]]

Throw(some) == Release(some) /\ file' = "threw" /\ UNCHANGED platform
Advance(next) == file' = next /\ UNCHANGED platform

\* open, or CreateFileA.
OpenFile ==
  /\ file = "open"
  /\ \/ Acquire("file") /\ Advance("size")
     \/ Throw({})

\* fstat, or GetFileSizeEx.
SizeFile ==
  /\ file = "size"
  /\ \/ UNCHANGED held /\ Advance(IF platform = "windows" THEN "map" ELSE "view")
     \/ Throw({"file"})

\* CreateFileMappingA.
CreateMapping(size) ==
  /\ file = "map"
  /\ \/ size > 0 /\ Acquire("mapping") /\ Advance("view")
     \/ Throw({"file"})

\* (Mutant) Only the file is closed when the view cannot be had.
ViewFailsHoldingFile == {"file"}

\* What is given back when the last step fails.
ViewFails == IF platform = "windows" THEN {"mapping", "file"} ELSE {"file"}

\* mmap, or MapViewOfFile.  The madvise after it may fail unnoticed.
MapView(size) ==
  /\ file = "view"
  /\ \/ size > 0 /\ Acquire("view") /\ Advance("mapped")
     \/ Throw(ViewFails)

Construct(size) == OpenFile \/ SizeFile \/ CreateMapping(size) \/ MapView(size)

Destroy ==
  /\ file = "mapped"
  /\ Release({"view", "file"} \cup IF platform = "windows" THEN {"mapping"} ELSE {})
  /\ Advance("destroyed")

FileInit ==
  /\ platform \in {"posix", "windows"} /\ file = "open"
  /\ held = [r \in Resources |-> 0]

\* Whichever step fails, what was taken before it is given back, once; and so is
\* everything when the object is destroyed.
NothingLeaks ==
  /\ \A r \in Resources : held[r] \in {0, 1}
  /\ file \in {"threw", "destroyed"} => \A r \in Resources : held[r] = 0

=============================================================================
