------------------------------ MODULE DhtIndex ------------------------------
(***************************************************************************)
(* The index of files that other nodes published with us                   *)
(* (dht/IndexManager.cpp: tthList), and how it is saved and loaded         *)
(* (dht/DHT.cpp: saveData, loadData).                                      *)
(*                                                                         *)
(* Ticks are milliseconds since the start of the process, so they start    *)
(* again at 0 in the next process, while the expiry of a saved source is a *)
(* tick of the process that saved it.                                      *)
(***************************************************************************)
EXTENDS Lists

CONSTANTS
    TTHs,                 \* files
    CIDs,                 \* nodes that publish
    MAX_SEARCH_RESULTS,   \* most sources of a file
    REPUBLISH_TIME,       \* how long a complete source is kept
    PFS_REPUBLISH_TIME,   \* how long a partial source is kept
    NoFile, Torn,         \* a file that is not there, or not complete
    MaxTick,              \* bound: the last tick of a process
    MaxFailures           \* bound: how often a step of saving fails or a crash cuts it off

Source == [cid : CIDs, expires : 0..(MaxTick + REPUBLISH_TIME), partial : BOOLEAN]

\* An index: some files, each with a list of sources.
IsIndex(f) == \E files \in SUBSET TTHs : f \in [files -> Seq(Source)]

ASSUME IndexAssumption ==
    /\ MAX_SEARCH_RESULTS \in Nat \ {0}
    /\ REPUBLISH_TIME \in Nat
    /\ PFS_REPUBLISH_TIME \in 0..REPUBLISH_TIME
    /\ MaxTick \in Nat /\ MaxFailures \in Nat
    /\ NoFile # Torn /\ ~IsIndex(NoFile) /\ ~IsIndex(Torn)

VARIABLES
    tick,      \* GET_TICK()
    tthList,   \* the sources of every known file
    file,      \* the index in DHT_FILE
    tmp,       \* the index in DHT_FILE.tmp
    saving,    \* how far saveData is: "no", or tmp is "written", or file "deleted"
    dirty,     \* DHT::dirty: there is something to save
    loaded,    \* history: sources read from the file and not published since
    saved,     \* history: what the last save that reached its end put into DHT_FILE
    cut,       \* history: a later save ended when DHT_FILE was deleted and tmp not renamed
    failed     \* how often a step of saving failed or a crash cut it off

copies == <<file, tmp, saving, saved, cut, failed>>
vars == <<tick, tthList, dirty, loaded, copies>>

Empty == [tth \in {} |-> <<>>]

Init ==
    /\ tick = 0
    /\ tthList = Empty
    /\ file = NoFile
    /\ tmp = NoFile
    /\ saving = "no"
    /\ dirty = FALSE
    /\ loaded = {}
    /\ saved = NoFile
    /\ cut = FALSE
    /\ failed = 0

\* tthList with the sources s for a file.
With(tth, s) == [x \in DOMAIN tthList \cup {tth} |-> IF x = tth THEN s ELSE tthList[x]]

Tick ==
    /\ tick < MaxTick
    /\ tick' = tick + 1
    /\ UNCHANGED <<tthList, dirty, loaded, copies>>

\* Drop the oldest source when there are too many.
Capped(s) == IF Len(s) > MAX_SEARCH_RESULTS THEN Tail(s) ELSE s

\* Fault: the old source of the node stays.
WithoutUser_Kept(s, cid) == s

\* The sources without the one of a node, of which there is at most one.
WithoutUser(s, cid) == RemoveFirstMatch(s, LAMBDA x : x.cid = cid)

\* Fault: a partial source is given its own time on top of that of a complete one.
Expiry_Added(partial) == tick + REPUBLISH_TIME + (IF partial THEN PFS_REPUBLISH_TIME ELSE 0)

\* When a source published now expires.
Expiry(partial) == tick + (IF partial THEN PFS_REPUBLISH_TIME ELSE REPUBLISH_TIME)

\* Fault: new sources in front.
Published_InFront(s, source) == <<source>> \o s

\* Old sources in front, new ones in the back.
Published(s, source) == Append(s, source)

\* addSource, for a PUB request of a node.
AddSource(tth, cid, partial) ==
    LET source == [cid |-> cid, expires |-> Expiry(partial), partial |-> partial]
        others == IF tth \in DOMAIN tthList THEN WithoutUser(tthList[tth], cid) ELSE <<>>
    IN  /\ saving = "no"
        /\ tthList' = With(tth, Capped(Published(others, source)))
        /\ dirty' = TRUE
        /\ loaded' = loaded \ {<<tth, cid>>}
        /\ UNCHANGED <<tick, copies>>

\* checkExpiration on the sources of one file: remove expired ones from the
\* front, up to the first that has not expired.
Unexpired(s) ==
    LET first == SelectInSeq(s, LAMBDA x : x.expires > tick)
    IN  IF first = 0 THEN <<>> ELSE SubSeq(s, first, Len(s))

\* checkExpiration, once a minute; a file without sources is forgotten.
CheckExpiration ==
    LET kept == {tth \in DOMAIN tthList : Unexpired(tthList[tth]) # <<>>}
    IN  /\ tthList' = [tth \in kept |-> Unexpired(tthList[tth])]
        /\ dirty' = (dirty \/ \E tth \in DOMAIN tthList : Unexpired(tthList[tth]) # tthList[tth])
        /\ UNCHANGED <<tick, loaded, copies>>

\* saveIndexes: partial sources are not saved, their files are.
Saved(index) == [tth \in DOMAIN index |-> Without(index[tth], {x \in Source : x.partial})]

\* What loadData finds in DHT_FILE; it reads nothing from a file that is not
\* complete, and never looks at the temporary one.
Content == IF file \in {NoFile, Torn} THEN Empty ELSE file

\* loadIndexes into an index: the files it has already keep their sources.
Loaded(index) == [tth \in DOMAIN index \cup DOMAIN Content |->
                     IF tth \in DOMAIN index THEN index[tth] ELSE Content[tth]]

\* The sources that a start with this index reads from the file.
FromFile(index) ==
    UNION {{<<tth, Content[tth][i].cid>> : i \in 1..Len(Content[tth])} :
              tth \in DOMAIN Content \ DOMAIN index}

\* Fault: the old file is deleted first.
Kept_Deleted == NoFile

\* What is in DHT_FILE while the new file is written.
Kept == file

\* One more step of saving fails.
Fails ==
    /\ failed < MaxFailures
    /\ failed' = failed + 1

\* saveData, when the DHT has stopped listening: the new file is written beside
\* the old one.  Nothing resets dirty.
WriteFile ==
    /\ dirty
    /\ saving = "no"
    /\ file' = Kept
    /\ \/ /\ tmp' = Saved(tthList)
          /\ saving' = "written"
          /\ UNCHANGED failed
       \/ /\ Fails
          /\ tmp' \in {tmp, Torn}
          /\ UNCHANGED saving
    /\ UNCHANGED <<tick, tthList, dirty, loaded, saved, cut>>

\* saveData, deleteFile: the old file goes; nobody asks whether it did.
DeleteFile ==
    /\ saving = "written"
    /\ saving' = "deleted"
    /\ \/ file' = NoFile /\ UNCHANGED failed
       \/ UNCHANGED file /\ Fails
    /\ UNCHANGED <<tick, tthList, tmp, dirty, loaded, saved, cut>>

\* saveData, renameFile: the new file is moved, or copied over what is there.
RenameFile ==
    /\ saving = "deleted"
    /\ saving' = "no"
    /\ file' = tmp
    /\ tmp' = NoFile
    /\ saved' = tmp
    /\ cut' = FALSE
    /\ UNCHANGED <<tick, tthList, dirty, loaded, failed>>

\* renameFile can neither move nor copy, and saveData drops its exception.
RenameFails ==
    /\ saving = "deleted"
    /\ saving' = "no"
    /\ Fails
    /\ file' \in {file, Torn}
    /\ cut' = TRUE
    /\ UNCHANGED <<tick, tthList, tmp, dirty, loaded, saved>>

\* The DHT starts again in the same process, where the index still exists.
Start ==
    /\ saving = "no"
    /\ tthList' = Loaded(tthList)
    /\ loaded' = loaded \cup FromFile(tthList)
    /\ UNCHANGED <<tick, dirty, copies>>

\* The process ends, saved or not, or crashes while it saves, and the next one
\* loads the file.
NewProcess ==
    /\ IF saving = "no" THEN UNCHANGED failed ELSE Fails
    /\ tick' = 0
    /\ tthList' = Loaded(Empty)
    /\ loaded' = FromFile(Empty)
    /\ dirty' = FALSE
    /\ saving' = "no"
    /\ cut' = (cut \/ saving = "deleted")
    /\ UNCHANGED <<file, tmp, saved>>

Next ==
    \/ Tick
    \/ \E tth \in TTHs, cid \in CIDs, partial \in BOOLEAN : AddSource(tth, cid, partial)
    \/ CheckExpiration
    \/ WriteFile
    \/ DeleteFile
    \/ RenameFile
    \/ RenameFails
    \/ Start
    \/ NewProcess

Spec == Init /\ [][Next]_vars

-----------------------------------------------------------------------------
(***************************************************************************)
(* Properties                                                              *)
(***************************************************************************)

\* Types of the index and its saved copy.
TypeOK ==
    /\ tick \in 0..MaxTick
    /\ IsIndex(tthList)
    /\ \A f \in {file, tmp, saved} \ {NoFile, Torn} : IsIndex(f)
    /\ saving \in {"no", "written", "deleted"}
    /\ failed \in 0..MaxFailures
    /\ dirty \in BOOLEAN /\ cut \in BOOLEAN
    /\ loaded \subseteq TTHs \X CIDs

\* A node is listed once for a file and no file has more than
\* MAX_SEARCH_RESULTS sources, across publishing, expiry, saving and loading.
OneSourcePerUser ==
    \A tth \in DOMAIN tthList :
        /\ IsInjective([i \in 1..Len(tthList[tth]) |-> tthList[tth][i].cid])
        /\ Len(tthList[tth]) <= MAX_SEARCH_RESULTS

\* A source is listed longer than REPUBLISH_TIME from now only if an earlier
\* process saved it and its node has not published it to this process.
OutlivesOnlyIfLoaded ==
    \A tth \in DOMAIN tthList : \A i \in 1..Len(tthList[tth]) :
        tthList[tth][i].expires > tick + REPUBLISH_TIME => <<tth, tthList[tth][i].cid>> \in loaded

\* The comment of checkExpiration ("list is sorted, so finding first
\* non-expired can stop iteration") holds but for two mixtures: whenever
\* checkExpiration runs, it leaves an expired source only behind one that was
\* loaded, or a partial one behind a complete one, which live longer.
ExpiredOnlyBehindLonger ==
    \A tth \in DOMAIN tthList :
        LET s == Unexpired(tthList[tth])
        IN  \A i \in 1..Len(s) : s[i].expires <= tick =>
               \E j \in 1..(i - 1) :
                   /\ s[j].expires > tick
                   /\ <<tth, s[j].cid>> \in loaded \/ (s[i].partial /\ ~s[j].partial)

\* The next process reads what the last save that reached its end has saved,
\* whichever steps of later saves fail and wherever a crash cuts them off; but
\* not while saveData is between deleting the old file and renaming the new one,
\* and not after a save that ended there, until a save reaches its end again.
\* The old file is never deleted before the new one is complete.
SavedIsRead ==
    /\ saving = "deleted" => tmp \notin {NoFile, Torn}
    /\ file = saved \/ saving = "deleted" \/ cut

=============================================================================
