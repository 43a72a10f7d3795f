----------------------------- MODULE PlanLibrary -----------------------------
(***************************************************************************)
(* Plan libraries (planning/plan-library.ts): roots that hold plan files   *)
(* and a manifest, the configuration that names further roots, and the     *)
(* commands that save, add, find and remove plans in them.                 *)
(*                                                                         *)
(* A file is a path of names; its plan is called by the last of them, so   *)
(* two files of a library may have one name.  Files also come and go by    *)
(* hand (git).  Titles, tags and contents are left out.                    *)
(***************************************************************************)
EXTENDS Naturals, FiniteSets, SequencesExt

CONSTANTS
    Library,    \* configured libraries, next to "workspace"
    LibFile,    \* files, as sequences of names
    SavePath,   \* paths a save may ask for, with ".." in them
    LibOpBound

PathName == UNION {ToSet(path) : path \in SavePath \cup LibFile}

\* Files that come by hand are paths of plain names.
ASSUME LibraryAssumption ==
    /\ SavePath \cup LibFile \subseteq Seq(PathName)
    /\ \A f \in LibFile : f # <<>> /\ ".." \notin ToSet(f)

VARIABLES
    libRoots,    \* libraries in the configuration
    libFiles,    \* library -> files on disk
    libManifest, \* library -> manifest entries: name and file
    libSaved,    \* history: the last operation, if it saved a plan
    libAdded,    \* history: entries made by hand, and files removed: library and file
    libOps

libVars == <<libRoots, libFiles, libManifest, libSaved, libAdded, libOps>>

Roots == {"workspace"} \cup Library
NoSave == <<>>

LibInit ==
    /\ libRoots = {"workspace"} /\ libFiles = [l \in Roots |-> {}]
    /\ libManifest = [l \in Roots |-> {}] /\ libSaved = NoSave /\ libAdded = {} /\ libOps = 0

-----------------------------------------------------------------------------

nameOf(file) == file[Len(file)]

LibEntry(name, file) == [name |-> name, file |-> file]

\* listRoot: the manifest, and the files found that no entry of it names.
listRoot(l) ==
    libManifest[l] \cup
        {LibEntry(nameOf(f), f) : f \in libFiles[l] \ {e.file : e \in libManifest[l]}}

\* One name of a path: ".." takes back the name before it, if there is one.
resolveName(sofar, name) ==
    IF name = ".." /\ sofar # <<>> /\ sofar[Len(sofar)] # ".."
    THEN SubSeq(sofar, 1, Len(sofar) - 1) ELSE Append(sofar, name)

\* resolve(library.path, path), as names below the library; ".." at its head leads
\* out of it.
resolvePath(path) ==
    LET upTo[n \in 0 .. Len(path)] == IF n = 0 THEN <<>> ELSE resolveName(upTo[n - 1], path[n])
    IN  upTo[Len(path)]

\* resolveSaveTarget: relative(library.path, resolved) must not begin with "..".
staysInside(path) == resolvePath(path) # <<>> /\ resolvePath(path)[1] # ".."

Step == libOps < LibOpBound /\ libOps' = libOps + 1

\* Mutant: a plan takes the place of any other of its name.
byName(manifest, file) ==
    {e \in manifest : e.name # nameOf(file)} \cup {LibEntry(nameOf(file), file)}

\* recordSavedPlan: an entry under the plan's own name in place of all others of
\* the file.
recordSavedPlan(manifest, file) ==
    {e \in manifest : e.file # file} \cup {LibEntry(nameOf(file), file)}

\* savePlanToLibrary, savePlanfileContentToLibrary, saveBuilderSessionToLibrary;
\* an unknown library or a path that leaves it is an error.
Save(l, path) ==
    /\ Step /\ l \in libRoots /\ staysInside(path)
    /\ LET file == resolvePath(path)
       IN  /\ libFiles' = [libFiles EXCEPT ![l] = @ \cup {file}]
           /\ libManifest' = [libManifest EXCEPT ![l] = recordSavedPlan(@, file)]
           /\ libSaved' = <<l, file>>
    /\ UNCHANGED <<libRoots, libAdded>>

\* addPlanLibraryEntry: any name for any file, in place of the entry of that name.
AddEntry(l, name, file) ==
    /\ Step
    /\ libManifest' = [libManifest EXCEPT ![l] = {e \in @ : e.name # name} \cup {LibEntry(name, file)}]
    /\ libAdded' = libAdded \cup {<<l, file>>} /\ libSaved' = NoSave
    /\ UNCHANGED <<libRoots, libFiles>>

\* addPlanLibrary: a name given again keeps the files and the manifest.
AddLibrary(l) ==
    /\ Step /\ libRoots' = libRoots \cup {l} /\ libSaved' = NoSave
    /\ UNCHANGED <<libFiles, libManifest, libAdded>>

\* removePlanLibrary: only its name goes, and never the workspace.
RemoveLibrary(l) ==
    /\ Step /\ l \in libRoots \ {"workspace"} /\ libRoots' = libRoots \ {l} /\ libSaved' = NoSave
    /\ UNCHANGED <<libFiles, libManifest, libAdded>>

\* listPlanLibraryPlans: one library or, for "all", every library.
selected(l) == IF l = "all" THEN libRoots ELSE libRoots \cap {l}

\* removeSavedPlanFromLibrary: the file of the first entry that matches; the order
\* of equal names is arbitrary here.  The manifest is left alone.
RemovePlan(l, name) ==
    /\ Step
    /\ \E r \in selected(l) : \E e \in listRoot(r) :
          /\ e.name = name
          /\ libFiles' = [libFiles EXCEPT ![r] = @ \ {e.file}]
          /\ libAdded' = libAdded \cup {<<r, e.file>>}
    /\ libSaved' = NoSave
    /\ UNCHANGED <<libRoots, libManifest>>

\* A file comes by hand.
FileAppears(l, f) ==
    /\ Step /\ libFiles' = [libFiles EXCEPT ![l] = @ \cup {f}] /\ libSaved' = NoSave
    /\ UNCHANGED <<libRoots, libManifest, libAdded>>

LibNext ==
    \E l \in Roots :
        \/ \E path \in SavePath : Save(l, path)
        \/ \E f \in LibFile : FileAppears(l, f) \/ \E g \in LibFile : AddEntry(l, nameOf(g), f)
        \/ AddLibrary(l) \/ RemoveLibrary(l)
        \/ \E f \in LibFile, from \in {l, "all"} : RemovePlan(from, nameOf(f))

LibSpec == LibInit /\ [][LibNext]_libVars

-----------------------------------------------------------------------------
(* Properties                                                              *)

\* Whatever aliases and removals came before, a plan just saved is listed under
\* its name exactly once, and its file is there.
SavedListedOnce ==
    libSaved # NoSave =>
        LET l == libSaved[1]
            f == libSaved[2]
        IN  f \in libFiles[l] /\ {e \in listRoot(l) : e.file = f} = {LibEntry(nameOf(f), f)}

\* Every file of a library is listed, and twice only under names given by hand;
\* every entry without a file was made by hand or its file was removed.
ListingAccounts ==
    \A l \in Roots :
        /\ \A f \in libFiles[l] : \E e \in listRoot(l) : e.file = f
        /\ \A e, d \in listRoot(l) : e.file = d.file /\ e # d => <<l, e.file>> \in libAdded
        /\ \A e \in listRoot(l) : e.file \in libFiles[l] \/ <<l, e.file>> \in libAdded

\* No save writes outside its library: every file it holds is a path of plain
\* names below the root.
SavesInside == \A l \in Roots : \A f \in libFiles[l] : f # <<>> /\ ".." \notin ToSet(f)

\* A library lists each plan it holds once, and a save stays inside of it.
LibraryAccounted == SavedListedOnce /\ ListingAccounts /\ SavesInside
=============================================================================
