----------------------------- MODULE FilePersister -----------------------------
(***************************************************************************)
(* The session file of peco-core (persistence/file.rs), which peco-cli     *)
(* keeps for a session: a save reads the old file and appends, by          *)
(* position, the turns it does not hold yet.  The session moves as in      *)
(* module Session and is saved at every turn boundary, and again when the  *)
(* boundary compacts or strips the history, as the looper does.            *)
(*                                                                         *)
(* Saves succeed here; file = NewFile stands for no file yet.              *)
(***************************************************************************)
EXTENDS Session

VARIABLE file           \* the committed turns and counters on disk

fileVars == <<session, arrived, file>>

FileOf(s) == [committed |-> s.committed, turnIndex |-> s.turnIndex,
              nextId |-> s.nextId, pending |-> s.pending, pinned |-> s.pinned]

NewFile == FileOf(NewSession)

\* Faulty: append by position only, whatever was evicted in between.
FileSaveOnlyGrows(old, s) ==
    [FileOf(s) EXCEPT !.committed =
        old.committed \o SubSeq(@, Len(old.committed) + 1, Len(@))]

\* FileSessionPersister::save: a file with more turns than the session is
\* rewritten, any other is appended to; the turns it has are not touched.
FileSave(old, s) ==
    [FileOf(s) EXCEPT !.committed =
        IF Len(old.committed) > Len(@) THEN @
        ELSE old.committed \o SubSeq(@, Len(old.committed) + 1, Len(@))]

AtBoundary ==
    session'.state = "Idle"
    /\ (session.state # "Idle" \/ session'.committed # session.committed)

FileInit == Init /\ file = NewFile

FileNext ==
    \/ Next /\ AtBoundary /\ file' = FileSave(file, session')
    \/ Next /\ ~AtBoundary /\ UNCHANGED file

FileSpec == FileInit /\ [][FileNext]_fileVars

-----------------------------------------------------------------------------

\* What a strip never takes out of a turn.
Lasting(turn) == Retain(turn, Kept(turn))

\* At rest the file holds the history of the session, turn by turn, however it
\* grew, shrank and was renumbered: compaction resurrects no turn and loses none
\* (the comment at file.rs:87-94).  Only what a strip removes may still be there.
FileHoldsTheHistory ==
    session.state = "Idle" =>
        /\ Len(file.committed) = Len(session.committed)
        /\ \A p \in DOMAIN file.committed :
              Lasting(file.committed[p]) = Lasting(session.committed[p])
        /\ file.pinned = session.pinned
        /\ file.turnIndex = session.turnIndex
        /\ file.nextId <= session.nextId
=============================================================================
