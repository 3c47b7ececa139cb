---------------------------------- MODULE OsFile ----------------------------------
(***************************************************************************)
(* Files (platform/windows/me_os_win.cpp, me_os.cpp): file references and   *)
(* mappings, the kernel handles behind them, and the write of a file        *)
(* through a temporary one.                                                 *)
(*                                                                          *)
(* The kernel is external: it opens a file when the sharing of the handles  *)
(* on it allows, renames a file only when every handle on it shares         *)
(* deletion (no handle of this code does), removes a delete-on-close file   *)
(* with its last handle, and closes the handles of a process that ends.     *)
(* Every call that can fail may fail.                                       *)
(***************************************************************************)
EXTENDS Integers, Sequences, FiniteSets

CONSTANTS Refs,         \* reference objects of the program
          File, Temp,   \* the file that is saved and its temporary name
          OldText,      \* what the file holds at first
          Texts,        \* what the program saves
          FlagSets,     \* the flags references are opened with
          Handles,      \* kernel handles
          None

VARIABLES disk,    \* what each path holds
          handles, \* the open kernel handles
          refs,    \* OSFileReference / meMemoryMappedFile objects
          save,    \* meOSWriteFileContentAtomic while it runs
          cut      \* whether the machine was ever stopped in the middle

vars == <<disk, handles, refs, save, cut>>

Open == {h \in Handles : handles[h] # None}

NoRef == [flags |-> {}, handle |-> None, size |-> 0, mapping |-> FALSE, view |-> FALSE]
NoSave == [st |-> "idle", text |-> <<>>, handle |-> None, pos |-> 0]

Init == /\ disk = [p \in {File, Temp} |-> IF p = File THEN OldText ELSE None]
        /\ handles = [h \in Handles |-> None]
        /\ refs = [r \in Refs |-> NoRef]
        /\ save = NoSave
        /\ cut = FALSE

-----------------------------------------------------------------------------
(* The kernel. *)

\* Every handle shares reading only, so handles on one file are all readers.
MayOpen(p, write, delete) ==
    \A h \in Open : handles[h].path = p =>
        ~handles[h].write /\ ~handles[h].delete /\ ~write /\ ~delete

MayRename(p) == \A h \in Open : handles[h].path # p

\* What the paths hold after handle h is closed.
Closed(h) == IF handles[h].delete THEN [disk EXCEPT ![handles[h].path] = None] ELSE disk

-----------------------------------------------------------------------------
(* File references. *)

\* CreateFileA's disposition: what the path must hold and what it holds after.
OpenMode(p, flags) ==
    CASE "exists" \in flags /\ "stomp" \in flags -> [ok |-> disk[p] # None, text |-> <<>>]
      [] "exists" \in flags -> [ok |-> disk[p] # None, text |-> disk[p]]
      [] "stomp" \in flags -> [ok |-> TRUE, text |-> <<>>]
      [] OTHER -> [ok |-> TRUE, text |-> IF disk[p] = None THEN <<>> ELSE disk[p]]

CanOpen(p, flags) == /\ OpenMode(p, flags).ok
                     /\ MayOpen(p, "read" \notin flags, "delete" \in flags)

Handle(p, flags) == [path |-> p, write |-> "read" \notin flags, delete |-> "delete" \in flags]

\* meOSOpenFile: the flags a reference already has are added to those asked.
OpenFile(r, f) ==
    LET flags == f \union refs[r].flags IN
    /\ refs[r].handle = None
    /\ CanOpen(File, flags)
    /\ \E h \in Handles \ Open :
        /\ handles' = [handles EXCEPT ![h] = Handle(File, flags)]
        /\ refs' = [refs EXCEPT ![r].flags = flags, ![r].handle = h]
    /\ disk' = [disk EXCEPT ![File] = OpenMode(File, flags).text]
    /\ UNCHANGED <<save, cut>>

\* meOSMapFile: a reference that was opened is unmapped again when the file is
\* empty, when no mapping can be made, or when the mapping cannot be viewed.
MapFile(r, f) ==
    LET flags == f \union refs[r].flags
        text == OpenMode(File, flags).text IN
    /\ refs[r].handle = None
    /\ ~refs[r].view
    /\ CanOpen(File, flags)
    /\ \E h \in Handles \ Open, made, viewed \in BOOLEAN :
        IF Len(text) > 0 /\ made /\ viewed
        THEN /\ handles' = [handles EXCEPT ![h] = Handle(File, flags)]
             /\ refs' = [refs EXCEPT ![r] = [flags |-> flags, handle |-> h, size |-> Len(text),
                                             mapping |-> TRUE, view |-> TRUE]]
        ELSE /\ refs' = [refs EXCEPT ![r] = NoRef]
             /\ UNCHANGED handles
    /\ disk' = [disk EXCEPT ![File] = text]
    /\ UNCHANGED <<save, cut>>

\* meOSUnmapFile: view, mapping and file are closed and the object is cleared.
UnmapFile(r) ==
    /\ refs[r].view
    /\ disk' = Closed(refs[r].handle)
    /\ handles' = [handles EXCEPT ![refs[r].handle] = None]
    /\ refs' = [refs EXCEPT ![r] = NoRef]
    /\ UNCHANGED <<save, cut>>

\* meOSCloseFile: the reference keeps its flags. No caller closes a scoped file
\* by hand, its destructor would find no handle.
CloseFile(r) ==
    /\ refs[r].handle # None /\ ~refs[r].view /\ "scoped" \notin refs[r].flags
    /\ disk' = Closed(refs[r].handle)
    /\ handles' = [handles EXCEPT ![refs[r].handle] = None]
    /\ refs' = [refs EXCEPT ![r].handle = None]
    /\ UNCHANGED <<save, cut>>

\* The destructors: a scoped reference closes its file. A file that is not
\* scoped is closed by hand before.
EndOfScope(r) ==
    /\ refs[r] # NoRef
    /\ IF "scoped" \in refs[r].flags
       THEN /\ disk' = Closed(refs[r].handle)
            /\ handles' = [handles EXCEPT ![refs[r].handle] = None]
       ELSE refs[r].handle = None /\ UNCHANGED <<disk, handles>>
    /\ refs' = [refs EXCEPT ![r] = NoRef]
    /\ UNCHANGED <<save, cut>>

-----------------------------------------------------------------------------
(* meOSWriteFileContentAtomic *)

SaveFlags == {"stomp", "temporary", "delete", "scoped"}

\* Mutant: the text is written to the file itself.
SaveInPlace(text) ==
    /\ save.st = "idle"
    /\ CanOpen(File, {"stomp"})
    /\ \E h \in Handles \ Open :
        /\ handles' = [handles EXCEPT ![h] = Handle(File, {"stomp"})]
        /\ save' = [st |-> "writing", text |-> text, handle |-> h, pos |-> 0]
    /\ disk' = [disk EXCEPT ![File] = <<>>]
    /\ UNCHANGED <<refs, cut>>

SaveBegin(text) ==
    /\ save.st = "idle"
    /\ CanOpen(Temp, SaveFlags)
    /\ \E h \in Handles \ Open :
        /\ handles' = [handles EXCEPT ![h] = Handle(Temp, SaveFlags)]
        /\ save' = [st |-> "writing", text |-> text, handle |-> h, pos |-> 0]
    /\ disk' = [disk EXCEPT ![Temp] = <<>>]
    /\ UNCHANGED <<refs, cut>>

\* meOSWriteFileContent: one turn of its loop, which writes at least a byte.
SaveWrite ==
    /\ save.st = "writing" /\ save.pos < Len(save.text)
    /\ \E n \in save.pos + 1 .. Len(save.text) :
        /\ disk' = [disk EXCEPT ![handles[save.handle].path] = SubSeq(save.text, 1, n)]
        /\ save' = [save EXCEPT !.pos = n]
    /\ UNCHANGED <<handles, refs, cut>>

SaveWriteFails ==
    /\ save.st = "writing" /\ save.pos < Len(save.text)
    /\ save' = [save EXCEPT !.st = "failed"]
    /\ UNCHANGED <<disk, handles, refs, cut>>

\* meOSFileMove: the handle on the temporary file is still open.
SaveMove ==
    /\ save.st = "writing" /\ save.pos = Len(save.text)
    /\ IF MayRename(Temp) /\ MayRename(File)
       THEN /\ disk' = [disk EXCEPT ![File] = disk[Temp], ![Temp] = None]
            /\ save' = [save EXCEPT !.st = "moved"]
       ELSE /\ save' = [save EXCEPT !.st = "failed"]
            /\ UNCHANGED disk
    /\ UNCHANGED <<handles, refs, cut>>

\* The destructor of tempFile, on every way out.
SaveEnd ==
    /\ save.st \in {"failed", "moved"}
    /\ disk' = Closed(save.handle)
    /\ handles' = [handles EXCEPT ![save.handle] = None]
    /\ save' = NoSave
    /\ UNCHANGED <<refs, cut>>

-----------------------------------------------------------------------------
\* The process dies: the kernel closes its handles.
ProcessEnds ==
    /\ disk' = [p \in DOMAIN disk |->
                  IF \E h \in Open : handles[h].path = p /\ handles[h].delete THEN None ELSE disk[p]]
    /\ handles' = [h \in Handles |-> None]
    /\ refs' = [r \in Refs |-> NoRef]
    /\ save' = NoSave
    /\ UNCHANGED cut

\* The machine stops: nothing is deleted.
PowerLoss ==
    /\ handles' = [h \in Handles |-> None]
    /\ refs' = [r \in Refs |-> NoRef]
    /\ save' = NoSave
    /\ cut' = TRUE
    /\ UNCHANGED disk

Next == \/ \E r \in Refs, f \in FlagSets : OpenFile(r, f) \/ MapFile(r, f)
        \/ \E r \in Refs : UnmapFile(r) \/ CloseFile(r) \/ EndOfScope(r)
        \/ \E text \in Texts : SaveBegin(text)
        \/ SaveWrite \/ SaveWriteFails \/ SaveMove \/ SaveEnd
        \/ ProcessEnds \/ PowerLoss

Spec == Init /\ [][Next]_vars

-----------------------------------------------------------------------------
TypeOK == /\ \A p \in DOMAIN disk : disk[p] # None => Len(disk[p]) <= 2
          /\ \A h \in Open : handles[h].path \in {File, Temp}
          /\ \A r \in Refs : refs[r].handle \in Handles \union {None}
          /\ save.st \in {"idle", "writing", "failed", "moved"}

\* The file holds the old text or a whole new one, whatever fails and wherever the
\* process dies; and a temporary file is gone with the save or the process that made it,
\* unless the machine was stopped.  (Rename never
\* lets it be the new one: the save's own handle stands in the way.)
SaveIsAllOrNothing ==
    /\ disk[File] \in {OldText} \union Texts
    /\ disk[Temp] # None => save.st # "idle" \/ cut

\* Every kernel handle has exactly one owner, and an owner's handle is open: a
\* mapping that fails half way keeps nothing, a scoped reference closes once.
HandlesHaveOneOwner ==
    /\ \A h \in Open : Cardinality({r \in Refs : refs[r].handle = h})
                         + (IF save.handle = h THEN 1 ELSE 0) = 1
    /\ \A r \in Refs : refs[r].handle # None => refs[r].handle \in Open
    /\ \A r \in Refs : "scoped" \in refs[r].flags => refs[r].handle # None

=============================================================================
