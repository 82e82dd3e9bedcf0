------------------------ MODULE CalibrationCheck_proofs ------------------------
(***************************************************************************)
(* Proofs about the loading of a calibration, by the engine and by the tool *)
(* vision_calibration_check, and about the geometry of the projections, for *)
(* any files, homographies, turns and arguments.                            *)
(***************************************************************************)
EXTENDS CalibrationCheck, SequenceTheorems, TLAPS

Places == {"choose", "exists", "open", "parse", "compute", "read", "answer", "done"}
Exceptions == {"none", "missing", "load", "other"}

StoreTypeOK ==
    /\ files \in [fs : MayHold("fs"), json : MayHold("json")]
    /\ writing \subseteq Formats
    /\ place \in Places
    /\ path \in Formats
    /\ raised \in Exceptions
    /\ disturbed \in BOOLEAN

Ended == place \in {"answer", "done"}

Usable(f, c) ==
    /\ c \in Contents[f]
    /\ complete(c)
    /\ f = "json" => paired(c)

\* What is known of the content at each place of load, and of the outcome.
LoadInv ==
    /\ place = "parse" => path = "json" /\ content \in Contents["json"] \cup {Torn}
    /\ place = "compute" => path = "json" /\ content \in Contents["json"] /\ content.fields
    /\ place = "read" => path = "fs" /\ content \in Contents["fs"]
    /\ ~ Ended => raised = "none"
    /\ Ended /\ raised = "none" =>
        /\ Usable(path, content)
        /\ calibration = [homography |-> content.homography, offset |-> content.offset]
    /\ path = "json" => raised # "other"
    /\ event = IF place = "done" THEN caught(raised) ELSE "none"

StoreInv == StoreTypeOK /\ LoadInv

\* A loaded file has a homography; one for points is never misshapen.
LEMMA ContentsAreTyped ==
    ASSUME NEW f \in Formats, NEW c \in Contents[f]
    PROVE  /\ c \in FileContents
           /\ c # Torn /\ c # Absent
           /\ f = "json" => c.homography # Misshapen
<1>1. Contents[f] \in SUBSET FileContents
  BY StoreAssumption DEF Formats
<1>2. c # Torn /\ c # Absent
  BY StoreAssumption
<1>3. f = "json" => c.homography # Misshapen
  BY StoreAssumption
<1> QED
  BY <1>1, <1>2, <1>3

LEMMA StoreInitInv == StoreInit => StoreInv
<1> SUFFICES ASSUME StoreInit PROVE StoreInv
  OBVIOUS
<1>1. StoreTypeOK
  BY DEF StoreInit, StoreTypeOK, Places, Exceptions, Formats
<1>2. LoadInv
  BY DEF StoreInit, LoadInv, Ended
<1> QED
  BY <1>1, <1>2 DEF StoreInv

\* Whoever writes the files leaves the load where it is.
LEMMA WriteKeepsInv ==
    ASSUME StoreInv, write_step
    PROVE  StoreInv' /\ UNCHANGED load_vars
<1> USE DEF StoreInv
<1>1. PICK f \in Formats :
        \/ begin_write(f) \/ abandon_write(f) \/ remove(f)
        \/ \E what \in Contents[f] : end_write(f, what)
  BY DEF write_step
<1>2. UNCHANGED load_vars
  BY <1>1 DEF begin_write, abandon_write, remove, end_write, change
<1>3. writing' \subseteq Formats
  BY <1>1 DEF begin_write, abandon_write, remove, end_write, StoreTypeOK
<1>4. \/ UNCHANGED <<files, disturbed>>
      \/ \E what \in MayHold(f) : files' = [files EXCEPT ![f] = what] /\ disturbed' = (place # "choose")
  BY <1>1 DEF begin_write, abandon_write, remove, end_write, change, MayHold
<1>5. files' \in [fs : MayHold("fs"), json : MayHold("json")] /\ disturbed' \in BOOLEAN
  BY <1>4 DEF StoreTypeOK, Formats
<1>6. StoreTypeOK'
  BY <1>2, <1>3, <1>5 DEF StoreTypeOK, load_vars
<1>7. LoadInv'
  BY <1>2 DEF LoadInv, load_vars, Ended, Usable, complete, paired, caught
<1> QED
  BY <1>2, <1>6, <1>7

\* An exception ends the load, and a success does with a usable content.
LEMMA RaiseKeepsInv ==
    ASSUME StoreInv, NEW exception \in {"missing", "load", "other"}, raise(exception),
           ~ Ended, path = "json" => exception # "other"
    PROVE  StoreInv'
<1>1. StoreTypeOK'
  BY DEF StoreInv, StoreTypeOK, raise, Places, Exceptions, file_vars
<1>2. LoadInv'
  BY DEF StoreInv, LoadInv, raise, Ended
<1> QED
  BY <1>1, <1>2 DEF StoreInv

LEMMA LoadedKeepsInv ==
    ASSUME StoreInv, loaded, ~ Ended, Usable(path, content)
    PROVE  StoreInv'
<1>1. StoreTypeOK'
  BY DEF StoreInv, StoreTypeOK, loaded, Places, file_vars
<1>2. LoadInv'
  BY DEF StoreInv, LoadInv, loaded, Ended, Usable, complete, paired
<1> QED
  BY <1>1, <1>2 DEF StoreInv

LEMMA ProceedKeepsInv ==
    ASSUME StoreInv, NEW to \in Places \ {"choose", "answer", "done"}, proceed(to), ~ Ended,
           to = "parse" => path = "json" /\ content' \in Contents["json"] \cup {Torn},
           to = "compute" => path = "json" /\ content' \in Contents["json"] /\ content'.fields,
           to = "read" => path = "fs" /\ content' \in Contents["fs"]
    PROVE  StoreInv'
<1>1. StoreTypeOK'
  BY DEF StoreInv, StoreTypeOK, proceed, file_vars
<1>2. LoadInv'
  BY DEF StoreInv, LoadInv, proceed, Ended, Places
<1> QED
  BY <1>1, <1>2 DEF StoreInv

LEMMA LoadKeepsInv ==
    ASSUME StoreInv, load
    PROVE  StoreInv'
<1>0. path \in Formats /\ files[path] \in MayHold(path)
  BY DEF StoreInv, StoreTypeOK, Formats
<1>1. CASE check_exists
  <2>1. ~ Ended
    BY <1>1 DEF check_exists, Ended
  <2>2. CASE raise("missing")
    BY <2>1, <2>2, RaiseKeepsInv
  <2>3. CASE proceed("open")
    BY <2>1, <2>3, ProceedKeepsInv DEF Places
  <2> QED
    BY <1>1, <2>2, <2>3 DEF check_exists
<1>2. CASE open_json
  <2>1. ~ Ended /\ path = "json"
    BY <1>2 DEF open_json, Ended
  <2>2. CASE raise("load")
    BY <2>1, <2>2, RaiseKeepsInv
  <2>3. CASE files[path] # Absent /\ proceed("parse") /\ content' = files[path]
    <3>1. content' \in Contents["json"] \cup {Torn}
      BY <1>0, <2>1, <2>3 DEF MayHold
    <3> QED
      BY <2>1, <2>3, <3>1, ProceedKeepsInv DEF Places
  <2> QED
    BY <1>2, <2>1, <2>2, <2>3 DEF open_json, converted
<1>3. CASE parse_json
  <2>1. ~ Ended /\ path = "json" /\ content \in Contents["json"] \cup {Torn}
    BY <1>3 DEF parse_json, Ended, StoreInv, LoadInv
  <2>2. CASE raise("load")
    BY <2>1, <2>2, RaiseKeepsInv
  <2>3. CASE content # Torn /\ content.fields /\ proceed("compute") /\ content' = content
    BY <2>1, <2>3, ProceedKeepsInv DEF Places
  <2> QED
    BY <1>3, <2>1, <2>2, <2>3 DEF parse_json, converted
<1>4. CASE compute_calibration
  <2>1. ~ Ended /\ path = "json" /\ content \in Contents["json"] /\ content.fields
    BY <1>4 DEF compute_calibration, Ended, StoreInv, LoadInv
  <2>2. CASE raise("load")
    BY <2>1, <2>2, RaiseKeepsInv
  <2>3. CASE ~ too_few_points(content) /\ content.homography # NoHomography /\ loaded
    <3>1. content \in FileContents /\ content.homography # Misshapen
      BY <2>1, ContentsAreTyped DEF Formats
    <3>2. content.homography \in Matrices
      BY <2>3, <3>1 DEF FileContents
    <3>3. paired(content)
      BY <2>3, <3>1 DEF too_few_points, paired, FileContents
    <3>4. Usable(path, content)
      BY <2>1, <3>2, <3>3 DEF Usable, complete
    <3> QED
      BY <2>1, <2>3, <3>4, LoadedKeepsInv
  <2> QED
    BY <1>4, <2>1, <2>2, <2>3 DEF compute_calibration, converted
<1>5. CASE open_file_storage
  <2>1. ~ Ended /\ path = "fs"
    BY <1>5 DEF open_file_storage, Ended
  <2>2. CASE \E e \in {"load", "other"} : raise(e)
    BY <2>1, <2>2, RaiseKeepsInv
  <2>3. CASE files[path] \in Contents[path] /\ proceed("read") /\ content' = files[path]
    BY <2>1, <2>3, ProceedKeepsInv DEF Places
  <2> QED
    BY <1>5, <2>1, <2>2, <2>3 DEF open_file_storage, converted
<1>6. CASE read_file_storage
  <2>1. ~ Ended /\ path = "fs" /\ content \in Contents["fs"]
    BY <1>6 DEF read_file_storage, Ended, StoreInv, LoadInv
  <2>2. CASE \E e \in {"load", "other"} : raise(e)
    BY <2>1, <2>2, RaiseKeepsInv
  <2>3. CASE content.fields /\ is_valid(content.homography) /\ loaded
    <3>1. Usable(path, content)
      BY <2>1, <2>3 DEF Usable, complete, is_valid
    <3> QED
      BY <2>1, <2>3, <3>1, LoadedKeepsInv
  <2> QED
    BY <1>6, <2>1, <2>2, <2>3 DEF read_file_storage, converted
<1> QED
  BY <1>1, <1>2, <1>3, <1>4, <1>5, <1>6 DEF load
-----------------------------------------------------------------------------
(* The engine. *)

\* Nobody has touched the files since the path was chosen: the load sees what
\* the directory deserves.
Calm == place # "choose" /\ ~ disturbed

Fits ==
    \/ caught(raised) = worth(path)
    \/ path = "fs" /\ raised = "other" /\ worth(path) = "calibration_load_failure"

CalmInv ==
    Calm =>
        /\ path = preferred
        /\ place \in {"open", "parse", "compute", "read"} => files[path] # Absent
        /\ place \in {"parse", "compute", "read"} => content = files[path]
        /\ Ended => Fits

EngineInv == StoreInv /\ CalmInv

LEMMA EngineInitInv == StoreInit => EngineInv
<1> SUFFICES ASSUME StoreInit PROVE EngineInv
  OBVIOUS
<1>1. CalmInv
  BY DEF StoreInit, CalmInv, Calm
<1> QED
  BY <1>1, StoreInitInv DEF EngineInv

\* A write disturbs every load under way.
LEMMA WriteKeepsCalm ==
    ASSUME EngineInv, write_step
    PROVE  CalmInv'
<1>1. UNCHANGED load_vars
  BY WriteKeepsInv DEF EngineInv
<1>2. UNCHANGED <<files, disturbed>> \/ disturbed' = (place # "choose")
  BY DEF write_step, begin_write, abandon_write, remove, end_write, change
<1>3. CASE UNCHANGED <<files, disturbed>>
  BY <1>1, <1>3 DEF EngineInv, CalmInv, Calm, Ended, Fits, caught, worth, complete, paired,
       preferred, load_vars
<1>4. CASE disturbed' = (place # "choose")
  BY <1>1, <1>4 DEF CalmInv, Calm, load_vars
<1> QED
  BY <1>2, <1>3, <1>4

\* An exception of a calm load is the one the file deserves.
LEMMA RaiseKeepsCalm ==
    ASSUME EngineInv, NEW exception, raise(exception), place # "choose",
           ~ disturbed => (Fits' /\ path = preferred)
    PROVE  CalmInv'
<1>1. UNCHANGED <<path, files, disturbed>> /\ place' = "answer"
  BY DEF raise, file_vars
<1>2. preferred' = preferred
  BY <1>1 DEF preferred
<1> QED
  BY <1>1, <1>2 DEF CalmInv, Calm

LEMMA LoadKeepsCalm ==
    ASSUME EngineInv, load
    PROVE  CalmInv'
<1>0. /\ path \in Formats /\ files[path] \in MayHold(path)
      /\ UNCHANGED <<path, files, disturbed>>
      /\ place \notin {"choose", "answer", "done"}
  <2>1. path \in Formats /\ files[path] \in MayHold(path)
    BY DEF EngineInv, StoreInv, StoreTypeOK, Formats
  <2>2. UNCHANGED <<path, files, disturbed>> /\ place \notin {"choose", "answer", "done"}
    BY DEF load, check_exists, open_json, parse_json, compute_calibration, open_file_storage,
         read_file_storage, raise, proceed, loaded, file_vars
  <2> QED
    BY <2>1, <2>2
<1>1. SUFFICES ASSUME ~ disturbed PROVE CalmInv'
  BY <1>0, <1>1 DEF CalmInv, Calm
<1>2. path' = preferred'
  BY <1>0, <1>1 DEF EngineInv, CalmInv, Calm, preferred
<1>3. worth(path)' = worth(path)
  BY <1>0 DEF worth, complete, paired
<1>4. ASSUME raise("missing"), files[path] = Absent PROVE CalmInv'
  <2>1. worth(path) = "calibration_required" /\ caught(raised)' = "calibration_required"
    BY <1>4 DEF worth, caught, raise
  <2> QED
    BY <1>0, <1>2, <1>3, <1>4, <2>1 DEF CalmInv, Fits, raise
<1>5. ASSUME raise("load"), worth(path) = "calibration_load_failure" PROVE CalmInv'
  <2>1. caught(raised)' = "calibration_load_failure"
    BY <1>5 DEF caught, raise
  <2> QED
    BY <1>0, <1>2, <1>3, <1>5, <2>1 DEF CalmInv, Fits, raise
<1>6. ASSUME raise("other"), path = "fs", worth(path) = "calibration_load_failure" PROVE CalmInv'
  BY <1>0, <1>2, <1>3, <1>6 DEF CalmInv, Fits, raise
<1>7. ASSUME loaded, worth(path) = "shot" PROVE CalmInv'
  <2>1. raised' = "none"
    BY <1>0, <1>7 DEF EngineInv, StoreInv, LoadInv, Ended, loaded
  <2>2. caught(raised)' = "shot"
    BY <2>1 DEF caught
  <2> QED
    BY <1>0, <1>2, <1>3, <1>7, <2>2 DEF CalmInv, Fits, loaded
<1>8. ASSUME NEW to \in {"open", "parse", "compute", "read"}, proceed(to), files[path] # Absent,
             to # "open" => content' = files[path]
      PROVE  CalmInv'
  BY <1>0, <1>2, <1>8 DEF CalmInv, Ended, proceed
<1>9. CASE check_exists
  BY <1>4, <1>8, <1>9 DEF check_exists
<1>10. CASE open_json
  <2>1. files[path] # Absent
    BY <1>1, <1>10 DEF open_json, EngineInv, CalmInv, Calm
  <2> QED
    BY <1>8, <1>10, <2>1 DEF open_json
<1>11. CASE parse_json
  <2>1. /\ files[path] # Absent /\ content = files[path] /\ path = "json"
        /\ content \in Contents["json"] \cup {Torn}
    BY <1>1, <1>11 DEF parse_json, EngineInv, CalmInv, Calm, StoreInv, LoadInv
  <2>2. content = Torn \/ ~ content.fields => worth(path) = "calibration_load_failure"
    BY <2>1 DEF worth, complete
  <2> QED
    BY <1>5, <1>8, <1>11, <2>1, <2>2 DEF parse_json, converted
<1>12. CASE compute_calibration
  <2>1. /\ files[path] # Absent /\ content = files[path] /\ path = "json"
        /\ content \in Contents["json"] /\ content.fields
    BY <1>1, <1>12 DEF compute_calibration, EngineInv, CalmInv, Calm, StoreInv, LoadInv
  <2>2. content \in FileContents /\ content # Torn /\ content.homography # Misshapen
    BY <2>1, ContentsAreTyped DEF Formats
  <2>3. too_few_points(content) <=> ~ paired(content)
    BY <2>2 DEF too_few_points, paired, FileContents
  <2>4. content.homography = NoHomography <=> content.homography \notin Matrices
    BY <2>2, StoreAssumption DEF FileContents
  <2>5. IF too_few_points(content) \/ content.homography = NoHomography
        THEN worth(path) = "calibration_load_failure" ELSE worth(path) = "shot"
    BY <2>1, <2>2, <2>3, <2>4 DEF worth, complete
  <2> QED
    BY <1>5, <1>7, <1>12, <2>1, <2>5 DEF compute_calibration, converted
<1>13. CASE open_file_storage
  <2>1. path = "fs" /\ files[path] # Absent
    BY <1>1, <1>13 DEF open_file_storage, EngineInv, CalmInv, Calm
  <2>2. files[path] = Torn => worth(path) = "calibration_load_failure"
    BY <2>1 DEF worth
  <2> QED
    BY <1>5, <1>6, <1>8, <1>13, <2>1, <2>2 DEF open_file_storage, converted
<1>14. CASE read_file_storage
  <2>1. /\ files[path] # Absent /\ content = files[path] /\ path = "fs"
        /\ content \in Contents["fs"]
    BY <1>1, <1>14 DEF read_file_storage, EngineInv, CalmInv, Calm, StoreInv, LoadInv
  <2>2. content # Torn
    BY <2>1, ContentsAreTyped DEF Formats
  <2>3. IF content.fields /\ is_valid(content.homography)
        THEN worth(path) = "shot" ELSE worth(path) = "calibration_load_failure"
    BY <2>1, <2>2 DEF worth, complete, is_valid
  <2> QED
    BY <1>5, <1>6, <1>7, <1>14, <2>1, <2>3 DEF read_file_storage, converted
<1> QED
  BY <1>9, <1>10, <1>11, <1>12, <1>13, <1>14 DEF load

LEMMA EngineStepInv == EngineInv /\ [StoreNext]_store_vars => EngineInv'
<1> SUFFICES ASSUME EngineInv, [StoreNext]_store_vars PROVE EngineInv'
  OBVIOUS
<1>1. CASE choose_path
  <2>1. StoreTypeOK'
    BY <1>1 DEF choose_path, EngineInv, StoreInv, StoreTypeOK, preferred, Places, Formats, file_vars
  <2>2. LoadInv'
    BY <1>1 DEF choose_path, EngineInv, StoreInv, LoadInv, Ended
  <2>3. CalmInv'
    BY <1>1 DEF choose_path, CalmInv, Ended, preferred, file_vars
  <2> QED
    BY <2>1, <2>2, <2>3 DEF EngineInv, StoreInv
<1>2. CASE load
  BY <1>2, LoadKeepsInv, LoadKeepsCalm DEF EngineInv
<1>3. CASE answer
  <2>1. StoreTypeOK'
    BY <1>3 DEF answer, EngineInv, StoreInv, StoreTypeOK, Places, file_vars
  <2>2. LoadInv'
    BY <1>3 DEF answer, EngineInv, StoreInv, LoadInv, Ended, Usable, complete, paired, caught
  <2>3. CalmInv'
    BY <1>3 DEF answer, EngineInv, CalmInv, Calm, Ended, preferred, Fits, caught, worth,
         complete, paired, file_vars
  <2> QED
    BY <2>1, <2>2, <2>3 DEF EngineInv, StoreInv
<1>4. CASE next_scenario
  <2>1. StoreTypeOK'
    BY <1>4 DEF next_scenario, EngineInv, StoreInv, StoreTypeOK, Places, Exceptions, Formats, file_vars
  <2>2. LoadInv'
    BY <1>4 DEF next_scenario, LoadInv, Ended
  <2>3. CalmInv'
    BY <1>4 DEF next_scenario, CalmInv, Calm
  <2> QED
    BY <2>1, <2>2, <2>3 DEF EngineInv, StoreInv
<1>5. CASE write_step
  BY <1>5, WriteKeepsInv, WriteKeepsCalm DEF EngineInv
<1>6. CASE UNCHANGED store_vars
  <2>1. StoreTypeOK'
    BY <1>6 DEF store_vars, file_vars, load_vars, EngineInv, StoreInv, StoreTypeOK
  <2>2. LoadInv'
    BY <1>6 DEF store_vars, file_vars, load_vars, EngineInv, StoreInv, LoadInv, Ended, Usable,
         complete, paired, caught
  <2>3. CalmInv'
    BY <1>6 DEF store_vars, file_vars, load_vars, EngineInv, CalmInv, Calm, Ended, preferred,
         Fits, caught, worth, complete, paired
  <2> QED
    BY <2>1, <2>2, <2>3 DEF EngineInv, StoreInv
<1> QED
  BY <1>1, <1>2, <1>3, <1>4, <1>5, <1>6 DEF StoreNext

LEMMA EngineInductive == StoreSpec => []EngineInv
BY EngineInitInv, EngineStepInv, PTL DEF StoreSpec

(***************************************************************************)
(* For any files and any writers: the preferred file alone decides whether  *)
(* an undisturbed scenario gives a shot, asks for a calibration or fails;   *)
(* with a calibration.json the failure is always the event. (A spoilt       *)
(* FileStorage may leave run_scenario as an exception instead.) Every place *)
(* of load knows what the file it looks at is worth, see CalmInv.           *)
(***************************************************************************)
THEOREM PreferredFileAlwaysDecides == StoreSpec => []PreferredFileDecides
<1>1. EngineInv => PreferredFileDecides
  <2> SUFFICES ASSUME EngineInv, place = "done", ~ disturbed
               PROVE  /\ \A what \in {"shot", "calibration_required"} : event = what <=> deserved = what
                      /\ files["fs"] = Absent => event = deserved
    BY DEF PreferredFileDecides
  <2>1. path = preferred /\ Fits /\ event = caught(raised)
    BY DEF EngineInv, CalmInv, Calm, Ended, StoreInv, LoadInv
  <2>2. deserved = worth(path)
    BY <2>1 DEF deserved, preferred
  <2>3. raised = "other" => event = "thrown"
    BY <2>1 DEF caught
  <2>4. \/ event = deserved
        \/ path = "fs" /\ event = "thrown" /\ deserved = "calibration_load_failure"
    BY <2>1, <2>2, <2>3 DEF Fits
  <2>5. files["fs"] = Absent => path = "json"
    BY <2>1 DEF preferred
  <2> QED
    BY <2>4, <2>5
<1> QED
  BY <1>1, EngineInductive, PTL

(***************************************************************************)
(* For any files and whoever writes them meanwhile, a calibration.json      *)
(* never makes run_scenario throw: no exception of its branch is of another *)
(* class than the two that are caught.                                      *)
(***************************************************************************)
THEOREM JsonIsCaught == StoreSpec => []JsonNeverThrows
<1>1. EngineInv => JsonNeverThrows
  BY DEF EngineInv, StoreInv, StoreTypeOK, LoadInv, Exceptions, JsonNeverThrows, caught
<1> QED
  BY <1>1, EngineInductive, PTL

(***************************************************************************)
(* For any files and whoever writes them meanwhile, a calibration in use    *)
(* was read from a complete file with a three by three homography, and with *)
(* four pairs of points or more if it was computed.                         *)
(***************************************************************************)
THEOREM CalibrationsAreSound == StoreSpec => []UsedCalibrationIsSound
<1>1. EngineInv => UsedCalibrationIsSound
  <2> SUFFICES ASSUME EngineInv, event = "shot"
               PROVE  /\ content # Torn /\ complete(content)
                      /\ path = "json" => paired(content)
                      /\ calibration = [homography |-> content.homography, offset |-> content.offset]
    BY DEF UsedCalibrationIsSound
  <2>1. place = "done" /\ raised = "none"
    BY DEF EngineInv, StoreInv, StoreTypeOK, LoadInv, Exceptions, caught
  <2>2. /\ Usable(path, content) /\ path \in Formats
        /\ calibration = [homography |-> content.homography, offset |-> content.offset]
    BY <2>1 DEF EngineInv, StoreInv, StoreTypeOK, LoadInv, Ended
  <2>3. content # Torn
    BY <2>2, ContentsAreTyped DEF Usable
  <2> QED
    BY <2>2, <2>3 DEF Usable
<1> QED
  BY <1>1, EngineInductive, PTL
-----------------------------------------------------------------------------
(* The geometry. *)

Homographies == [1..3 -> [1..3 -> Int]]
Points == [x : Int, y : Int, w : Int]

LEMMA NoZeroDivisors ==
    ASSUME NEW x \in Int, NEW y \in Int, x * y = 0
    PROVE  x = 0 \/ y = 0
OBVIOUS

\* Turning to and fro multiplies the three coordinates by the square of the norm.
LEMMA TurnsCancel ==
    ASSUME NEW p \in Points, NEW turn \in Turns
    PROVE  LET k == turn.norm * turn.norm
           IN  rotate_board_point(rotate_board_point(p, turn), turned_back(turn))
                 = [x |-> p.x * k, y |-> p.y * k, w |-> p.w * k]
<1> DEFINE c == turn.cos
           s == turn.sin
           n == turn.norm
           q == rotate_board_point(p, turn)
<1> SUFFICES rotate_board_point(q, turned_back(turn))
               = [x |-> p.x * (n * n), y |-> p.y * (n * n), w |-> p.w * (n * n)]
  OBVIOUS
<1>1. turn \in [cos : Int, sin : Int, norm : Int] /\ c * c + s * s = n * n
  BY DEF Turns
<1>2. c \in Int /\ s \in Int /\ n \in Int /\ p.x \in Int /\ p.y \in Int /\ p.w \in Int
  BY <1>1 DEF Points
<1>3. turned_back(turn).cos = c /\ turned_back(turn).sin = -s /\ turned_back(turn).norm = n
  BY <1>1 DEF turned_back
<1>4. q.x = p.x * c - p.y * s /\ q.y = p.x * s + p.y * c /\ q.w = p.w * n
  BY DEF rotate_board_point
<1>5. rotate_board_point(q, turned_back(turn))
        = [x |-> q.x * c - q.y * (-s), y |-> q.x * (-s) + q.y * c, w |-> q.w * n]
  BY <1>3 DEF rotate_board_point
<1> HIDE DEF c, s, n, q
<1>6. q.x * c - q.y * (-s) = p.x * (n * n) /\ q.x * (-s) + q.y * c = p.y * (n * n)
  <2>1. q.x * c - q.y * (-s) = p.x * (c * c + s * s)
    BY <1>2, <1>4
  <2>2. q.x * (-s) + q.y * c = p.y * (c * c + s * s)
    <3>1. q.x \in Int /\ q.y \in Int /\ p.x * (c * s) \in Int /\ p.y * (s * s) \in Int
      BY <1>2, <1>4
    <3>2. q.x * s = p.x * (c * s) - p.y * (s * s)
      BY <1>2, <1>4
    <3>3. q.x * (-s) = -(q.x * s)
      BY <1>2, <3>1
    <3>4. q.x * (-s) = p.y * (s * s) - p.x * (c * s)
      BY <3>1, <3>2, <3>3
    <3>5. q.y * c = p.y * (c * c) + p.x * (c * s)
      BY <1>2, <1>4
    <3>6. p.y * (c * c + s * s) = p.y * (c * c) + p.y * (s * s)
      BY <1>2
    <3> QED
      BY <1>2, <3>4, <3>5, <3>6
  <2> QED
    BY <1>1, <2>1, <2>2
<1>7. q.w * n = p.w * (n * n)
  BY <1>2, <1>4
<1> QED
  BY <1>5, <1>6, <1>7

LEMMA RowsAreIntegers ==
    ASSUME NEW m \in Homographies, NEW i \in 1..3, NEW p \in Points
    PROVE  /\ m[i][1] \in Int /\ m[i][2] \in Int /\ m[i][3] \in Int
           /\ row(m[i], p) = m[i][1] * p.x + m[i][2] * p.y + m[i][3] * p.w
           /\ row(m[i], p) \in Int
<1>1. m[i] \in [1..3 -> Int]
  BY DEF Homographies
<1>2. m[i][1] \in Int /\ m[i][2] \in Int /\ m[i][3] \in Int
  BY <1>1
<1>3. p.x \in Int /\ p.y \in Int /\ p.w \in Int
  BY DEF Points
<1> QED
  BY <1>2, <1>3 DEF row

\* The inverse takes the image of p, scaled by k, to p scaled by k and the determinant.
LEMMA InverseLeadsBack ==
    ASSUME NEW m \in Homographies, NEW p \in Points, NEW k \in Int,
           determinant(m) # 0
    PROVE  LET q == [x |-> row(m[1], p) * k, y |-> row(m[2], p) * k, w |-> row(m[3], p) * k]
           IN  /\ determinant(m) \in Int
               /\ row(invert(m)[1], q) = determinant(m) * p.x * k
               /\ row(invert(m)[2], q) = determinant(m) * p.y * k
               /\ row(invert(m)[3], q) = determinant(m) * p.w * k
<1> DEFINE a == m[1][1]
           b == m[1][2]
           c == m[1][3]
           d == m[2][1]
           e == m[2][2]
           f == m[2][3]
           g == m[3][1]
           h == m[3][2]
           i == m[3][3]
           det == determinant(m)
           X == row(m[1], p)
           Y == row(m[2], p)
           W == row(m[3], p)
           inv == invert(m)
           q == [x |-> X * k, y |-> Y * k, w |-> W * k]
<1>1. /\ a \in Int /\ b \in Int /\ c \in Int /\ d \in Int /\ e \in Int /\ f \in Int
      /\ g \in Int /\ h \in Int /\ i \in Int
      /\ X = a * p.x + b * p.y + c * p.w /\ Y = d * p.x + e * p.y + f * p.w
      /\ W = g * p.x + h * p.y + i * p.w
      /\ X \in Int /\ Y \in Int /\ W \in Int
  BY RowsAreIntegers
<1>2. p.x \in Int /\ p.y \in Int /\ p.w \in Int
  BY DEF Points
<1>3. det = a * (e * i - f * h) - b * (d * i - f * g) + c * (d * h - e * g)
  BY DEF determinant, minor
<1>4. /\ inv[1][1] = e * i - f * h /\ inv[1][2] = -(b * i - c * h) /\ inv[1][3] = b * f - c * e
      /\ inv[2][1] = -(d * i - f * g) /\ inv[2][2] = a * i - c * g /\ inv[2][3] = -(a * f - c * d)
      /\ inv[3][1] = d * h - e * g /\ inv[3][2] = -(a * h - b * g) /\ inv[3][3] = a * e - b * d
  BY DEF invert, minor
<1>5. \A j \in 1..3 : row(inv[j], q) = inv[j][1] * (X * k) + inv[j][2] * (Y * k) + inv[j][3] * (W * k)
  BY DEF row
<1> SUFFICES /\ det \in Int
             /\ row(inv[1], q) = det * p.x * k
             /\ row(inv[2], q) = det * p.y * k
             /\ row(inv[3], q) = det * p.w * k
  OBVIOUS
<1> HIDE DEF a, b, c, d, e, f, g, h, i, det, X, Y, W, inv, q
<1>6. det \in Int
  BY <1>1, <1>3
<1>7. /\ (e * i - f * h) * X + (-(b * i - c * h)) * Y + (b * f - c * e) * W = det * p.x
      /\ (-(d * i - f * g)) * X + (a * i - c * g) * Y + (-(a * f - c * d)) * W = det * p.y
      /\ (d * h - e * g) * X + (-(a * h - b * g)) * Y + (a * e - b * d) * W = det * p.w
  BY <1>1, <1>2, <1>3
<1>8. \A j \in 1..3 : inv[j][1] \in Int /\ inv[j][2] \in Int /\ inv[j][3] \in Int
  BY <1>1, <1>4
<1>9. \A j \in 1..3 : row(inv[j], q) = (inv[j][1] * X + inv[j][2] * Y + inv[j][3] * W) * k
  <2> TAKE j \in 1..3
  <2> DEFINE u == inv[j][1]
             v == inv[j][2]
             z == inv[j][3]
  <2>1. row(inv[j], q) = u * (X * k) + v * (Y * k) + z * (W * k) /\ u \in Int /\ v \in Int /\ z \in Int
    BY <1>5, <1>8
  <2> HIDE DEF u, v, z
  <2>2. row(inv[j], q) = (u * X + v * Y + z * W) * k
    BY <1>1, <2>1
  <2> QED
    BY <2>2 DEF u, v, z
<1> QED
  BY <1>4, <1>6, <1>7, <1>9

\* What project_image_point returns leads back and is turned, for any homography
\* and turn and whatever the point.
Projected(entry) ==
    entry.image \in Points /\ entry.image.w = 1
      /\ entry.board = project_image_point(calibration, entry.image)

CalibrationIsTyped == calibration.homography \in Homographies /\ calibration.offset \in Turns

LEMMA PerspectiveIsTyped ==
    ASSUME NEW m \in Homographies, NEW p \in Points
    PROVE  perspectiveTransform(m, p) \in Points
<1>1. row(m[1], p) \in Int /\ row(m[2], p) \in Int /\ row(m[3], p) \in Int
  BY RowsAreIntegers
<1> QED
  BY <1>1 DEF perspectiveTransform, Origin, Point, Points

LEMMA ProjectedIsTurned ==
    ASSUME CalibrationIsTyped, NEW entry, Projected(entry)
    PROVE  IsTurned(entry)
<1> DEFINE p == perspectiveTransform(calibration.homography, entry.image)
           turn == calibration.offset
           c == turn.cos
           s == turn.sin
           n == turn.norm
           q == entry.board
           x == p.x
           y == p.y
           w == p.w
           square == x * x + y * y
<1>1. p \in Points
  BY PerspectiveIsTyped DEF CalibrationIsTyped, Projected
<1>2. x \in Int /\ y \in Int /\ w \in Int
  BY <1>1 DEF Points
<1>3. /\ c \in Int /\ s \in Int /\ n \in Int
      /\ c * c + s * s = n * n
  BY DEF CalibrationIsTyped, Turns
<1>4. q = rotate_board_point(p, turn)
  BY DEF Projected, project_image_point
<1>5. q.x = x * c - y * s /\ q.y = x * s + y * c /\ q.w = w * n
  BY <1>4 DEF rotate_board_point
<1> SUFFICES /\ x * q.x + y * q.y = c * square
             /\ x * q.y - y * q.x = s * square
             /\ (q.x * q.x + q.y * q.y) * w * w = square * q.w * q.w
  BY DEF IsTurned
<1> HIDE DEF p, turn, c, s, n, q, x, y, w
<1>6. /\ x * (x * c - y * s) + y * (x * s + y * c) = c * square
      /\ x * (x * s + y * c) - y * (x * c - y * s) = s * square
  BY <1>2, <1>3
<1>7. (x * c - y * s) * (x * c - y * s) + (x * s + y * c) * (x * s + y * c) = square * (c * c + s * s)
  BY <1>2, <1>3
<1>8. q.x * q.x + q.y * q.y = square * (n * n)
  BY <1>3, <1>5, <1>7
<1>9. square \in Int /\ n * n \in Int
  BY <1>2, <1>3
<1>10. (square * (n * n)) * w * w = square * (w * n) * (w * n)
  <2> HIDE DEF square
  <2> QED
    BY <1>2, <1>3, <1>9
<1> QED
  BY <1>5, <1>6, <1>8, <1>10

LEMMA ProjectedLeadsBack ==
    ASSUME CalibrationIsTyped, NEW entry, Projected(entry)
    PROVE  LeadsBack(entry)
<1> DEFINE m == calibration.homography
           turn == calibration.offset
           image == entry.image
           k == turn.norm * turn.norm
           p == perspectiveTransform(m, image)
           back == rotate_board_point(entry.board, turned_back(turn))
           inv == invert(m)
           d == determinant(m)
<1> SUFFICES ASSUME d # 0, ~ on_horizon(m, image)
             PROVE  same_point(perspectiveTransform(inv, back), image)
  BY DEF LeadsBack, project_board_point_to_image
<1>1. m \in Homographies /\ turn \in Turns /\ image \in Points /\ image.w = 1
  BY DEF CalibrationIsTyped, Projected
<1>2. image.x \in Int /\ image.y \in Int
  BY <1>1 DEF Points
<1>3. k \in Int /\ k # 0
  <2>1. turn.norm \in Int /\ turn.norm > 0
    BY <1>1 DEF Turns
  <2> QED
    BY <2>1, NoZeroDivisors
<1>4. p = [x |-> row(m[1], image), y |-> row(m[2], image), w |-> row(m[3], image)] /\ p \in Points
  BY <1>1, PerspectiveIsTyped DEF perspectiveTransform
<1>5. back = [x |-> p.x * k, y |-> p.y * k, w |-> p.w * k]
  <2>1. back = rotate_board_point(rotate_board_point(p, turn), turned_back(turn))
    BY DEF Projected, project_image_point
  <2> QED
    BY <1>1, <1>4, <2>1, TurnsCancel
<1>6. back = [x |-> row(m[1], image) * k, y |-> row(m[2], image) * k, w |-> row(m[3], image) * k]
  BY <1>4, <1>5
<1>7. /\ d \in Int
      /\ row(inv[1], back) = d * image.x * k
      /\ row(inv[2], back) = d * image.y * k
      /\ row(inv[3], back) = d * image.w * k
  <2> HIDE DEF k
  <2> QED
    BY <1>1, <1>3, <1>6, InverseLeadsBack
<1> DEFINE r == perspectiveTransform(inv, back)
<1> HIDE DEF d, k, inv, back
<1>8. d * k \in Int /\ d * k # 0
  BY <1>3, <1>7, NoZeroDivisors
<1>9. row(inv[3], back) = d * k
  BY <1>1, <1>3, <1>7
<1>10. r = [x |-> row(inv[1], back), y |-> row(inv[2], back), w |-> row(inv[3], back)]
  BY <1>8, <1>9 DEF perspectiveTransform, on_horizon
<1>11. r.x = d * image.x * k /\ r.y = d * image.y * k /\ r.w = d * k
  BY <1>7, <1>9, <1>10
<1>12. d * image.x * k = image.x * (d * k) /\ d * image.y * k = image.y * (d * k)
  BY <1>2, <1>3, <1>7
<1>13. r.x * image.w = image.x * r.w /\ r.y * image.w = image.y * r.w
  BY <1>1, <1>2, <1>8, <1>11, <1>12
<1> QED
  BY <1>13 DEF same_point
-----------------------------------------------------------------------------
(* The tool. *)

\* The loop of main: the pairs before index are projected, those from it on are
\* still to come, and the calibration they were projected with is the one in use.
LoopInv ==
    /\ arguments \in Seq(Numbers \cup {Junk})
    /\ output \in Seq([image : Points, board : Points])
    /\ index = 2 * Len(output) + 1
    /\ index <= Len(arguments) + 1
    /\ place # "choose" => usage_ok
    /\ place # "done"
    /\ \A k \in 1..Len(output) :
        Projected(output[k]) /\ output[k].image = Point(arguments[2 * k - 1], arguments[2 * k])
    /\ output # <<>> => place = "answer" /\ raised = "none"

ExitInv ==
    /\ exit_code \in {-1, 0, 1}
    /\ exit_code = 0 =>
        /\ printed = output
        /\ 2 * Len(output) = Len(arguments)
        /\ place = "answer" /\ raised = "none"
    /\ exit_code # 0 => printed = <<>>

CheckInv == StoreInv /\ LoopInv /\ ExitInv

LEMMA CalibrationInUseIsTyped ==
    ASSUME StoreInv, Ended, raised = "none"
    PROVE  CalibrationIsTyped
<1>1. /\ path \in Formats /\ Usable(path, content)
      /\ calibration = [homography |-> content.homography, offset |-> content.offset]
  BY DEF StoreInv, StoreTypeOK, LoadInv
<1>2. content \in FileContents /\ content.homography \in Matrices
  BY <1>1, ContentsAreTyped DEF Usable, complete
<1>3. calibration.homography \in Homographies
  BY <1>1, <1>2, StoreAssumption DEF Homographies
<1>4. calibration.offset \in Turns
  BY <1>1, <1>2 DEF FileContents
<1> QED
  BY <1>3, <1>4 DEF CalibrationIsTyped

LEMMA CheckInitInv == CheckInit => CheckInv
<1> SUFFICES ASSUME CheckInit PROVE CheckInv
  OBVIOUS
<1>1. StoreInv
  BY StoreInitInv DEF CheckInit
<1>2. arguments \in Seq(Numbers \cup {Junk})
  <2>1. PICK n \in 0..MaxArguments : arguments \in [1..n -> Numbers \cup {Junk}]
    BY DEF CheckInit
  <2>2. n \in Nat
    BY CheckAssumption
  <2> QED
    BY <2>1, <2>2, SeqDef
<1>3. place = "choose" /\ output = <<>> /\ index = 1 /\ printed = <<>> /\ exit_code = -1
  BY DEF CheckInit, StoreInit
<1>4. LoopInv
  BY <1>2, <1>3 DEF LoopInv
<1>5. ExitInv
  BY <1>3 DEF ExitInv
<1> QED
  BY <1>1, <1>4, <1>5 DEF CheckInv

\* Loading and writing files ends before the loop begins, or does not touch it.
LEMMA LoadStepKeepsCheckInv ==
    ASSUME CheckInv, load_step
    PROVE  CheckInv'
<1>1. StoreInv'
  BY LoadKeepsInv, WriteKeepsInv DEF CheckInv, load_step
<1>2. UNCHANGED <<arguments, index, output, printed, exit_code>>
  BY DEF load_step
<1>3. CASE write_step
  <2>1. UNCHANGED <<place, calibration, raised>>
    BY <1>3, WriteKeepsInv DEF CheckInv, load_vars
  <2>2. LoopInv'
    BY <1>2, <2>1 DEF CheckInv, LoopInv, usage_ok, Projected
  <2>3. ExitInv'
    BY <1>2, <2>1 DEF CheckInv, ExitInv
  <2> QED
    BY <1>1, <2>2, <2>3 DEF CheckInv
<1>4. CASE load
  <2>1. place \notin {"choose", "answer", "done"} /\ place' \notin {"choose", "done"}
    BY <1>4 DEF load, check_exists, open_json, parse_json, compute_calibration, open_file_storage,
         read_file_storage, raise, proceed, loaded
  <2>2. output = <<>> /\ exit_code # 0
    BY <2>1 DEF CheckInv, LoopInv, ExitInv
  <2>3. LoopInv'
    BY <1>2, <2>1, <2>2 DEF CheckInv, LoopInv, usage_ok
  <2>4. ExitInv'
    BY <1>2, <2>2 DEF CheckInv, ExitInv
  <2> QED
    BY <1>1, <2>3, <2>4 DEF CheckInv
<1> QED
  BY <1>3, <1>4 DEF load_step

LEMMA UnchangedStoreInv ==
    ASSUME StoreInv, UNCHANGED store_vars
    PROVE  StoreInv'
<1>1. StoreTypeOK'
  BY DEF StoreInv, StoreTypeOK, store_vars, file_vars, load_vars
<1>2. LoadInv'
  BY DEF StoreInv, LoadInv, store_vars, file_vars, load_vars, Ended, Usable, complete, paired, caught
<1> QED
  BY <1>1, <1>2 DEF StoreInv

\* Each turn of the loop projects the next pair with the calibration in use.
LEMMA ProjectKeepsCheckInv ==
    ASSUME CheckInv, project_next
    PROVE  CheckInv'
<1> DEFINE image == Point(arguments[index], arguments[index + 1])
           entry == [image |-> image, board |-> project_image_point(calibration, image)]
<1>1. /\ place = "answer" /\ exit_code = -1 /\ raised = "none"
      /\ index < Len(arguments) /\ parsed(index) /\ parsed(index + 1)
      /\ output' = Append(output, entry) /\ index' = index + 2
      /\ UNCHANGED <<store_vars, arguments, printed, exit_code>>
  BY DEF project_next, running, next_index
<1>2. /\ arguments \in Seq(Numbers \cup {Junk}) /\ output \in Seq([image : Points, board : Points])
      /\ index = 2 * Len(output) + 1 /\ index <= Len(arguments) + 1 /\ usage_ok
      /\ \A k \in 1..Len(output) :
          Projected(output[k]) /\ output[k].image = Point(arguments[2 * k - 1], arguments[2 * k])
  BY <1>1 DEF CheckInv, LoopInv
<1>3. Len(output) \in Nat /\ Len(arguments) \in Nat
  BY <1>2
<1>4. arguments[index] \in Int /\ arguments[index + 1] \in Int
  <2>1. index \in 1..Len(arguments) /\ index + 1 \in 1..Len(arguments)
    BY <1>1, <1>2, <1>3
  <2>2. arguments[index] \in Numbers \cup {Junk} /\ arguments[index + 1] \in Numbers \cup {Junk}
    BY <1>2, <2>1, ElementOfSeq
  <2> QED
    BY <1>1, <2>2, CheckAssumption DEF parsed
<1>5. image \in Points /\ image.w = 1
  BY <1>4 DEF Point, Points
<1>6. CalibrationIsTyped
  BY <1>1, CalibrationInUseIsTyped DEF CheckInv, Ended
<1>7. entry \in [image : Points, board : Points]
  <2>1. perspectiveTransform(calibration.homography, image) \in Points
    BY <1>5, <1>6, PerspectiveIsTyped DEF CalibrationIsTyped
  <2>2. calibration.offset \in [cos : Int, sin : Int, norm : Int]
    BY <1>6 DEF CalibrationIsTyped, Turns
  <2>3. project_image_point(calibration, image) \in Points
    BY <2>1, <2>2 DEF project_image_point, rotate_board_point, Points
  <2> QED
    BY <1>5, <2>3
<1>8. Projected(entry)
  BY <1>5 DEF Projected
<1> HIDE DEF entry
<1>9. StoreInv'
  BY <1>1, UnchangedStoreInv DEF CheckInv
<1>10. output' \in Seq([image : Points, board : Points]) /\ Len(output') = Len(output) + 1
  BY <1>1, <1>2, <1>7
<1>11. ASSUME NEW k \in 1..Len(output')
       PROVE  Projected(output[k])' /\ output'[k].image = Point(arguments[2 * k - 1], arguments[2 * k])
  <2>1. UNCHANGED calibration
    BY <1>1 DEF store_vars, load_vars
  <2>2. CASE k = Len(output) + 1
    <3>1. output'[k] = entry
      BY <1>1, <1>2, <2>2
    <3>2. 2 * k - 1 = index /\ 2 * k = index + 1
      BY <1>2, <1>3, <2>2
    <3> QED
      BY <1>8, <2>1, <3>1, <3>2 DEF Projected, entry
  <2>3. CASE k # Len(output) + 1
    <3>1. k \in 1..Len(output)
      BY <1>3, <1>10, <2>3
    <3>2. output'[k] = output[k]
      BY <1>1, <1>2, <3>1
    <3> QED
      BY <1>2, <2>1, <3>1, <3>2 DEF Projected
  <2> QED
    BY <2>2, <2>3
<1>12. LoopInv'
  <2>1. UNCHANGED <<arguments, place, raised>>
    BY <1>1 DEF store_vars, load_vars
  <2>2. index' = 2 * Len(output') + 1 /\ index' <= Len(arguments) + 1
    BY <1>1, <1>2, <1>3, <1>10
  <2>3. usage_ok'
    BY <1>2, <2>1 DEF usage_ok
  <2> QED
    BY <1>1, <1>2, <1>10, <1>11, <2>1, <2>2, <2>3 DEF LoopInv
<1>13. ExitInv'
  BY <1>1 DEF CheckInv, ExitInv
<1> QED
  BY <1>9, <1>12, <1>13 DEF CheckInv

LEMMA ReturnKeepsCheckInv ==
    ASSUME CheckInv, NEW code \in {0, 1}, return(code),
           code = 1 => UNCHANGED printed /\ exit_code = -1,
           code = 0 => printed' = output /\ running /\ raised = "none" /\ index >= Len(arguments)
    PROVE  CheckInv'
<1>1. UNCHANGED <<store_vars, arguments, index, output>> /\ exit_code' = code
  BY DEF return
<1>2. UNCHANGED <<place, raised, calibration>>
  BY <1>1 DEF store_vars, load_vars
<1>3. StoreInv'
  BY <1>1, UnchangedStoreInv DEF CheckInv
<1>4. LoopInv'
  BY <1>1, <1>2 DEF CheckInv, LoopInv, usage_ok, Projected
<1>5. ASSUME code = 0 PROVE 2 * Len(output) = Len(arguments)
  <2> DEFINE m == Len(output)
             n == Len(arguments)
  <2>1. m \in Nat /\ n \in Nat
    BY DEF CheckInv, LoopInv
  <2>2. n % 2 = 0
    BY <1>5 DEF running, CheckInv, LoopInv, usage_ok
  <2>3. n <= 2 * m + 1 /\ 2 * m + 1 <= n + 1
    BY <1>5 DEF CheckInv, LoopInv
  <2> HIDE DEF m, n
  <2>4. 2 * m = n
    BY <2>1, <2>2, <2>3
  <2> QED
    BY <2>4 DEF m, n
<1>6. ExitInv'
  BY <1>1, <1>2, <1>5 DEF CheckInv, ExitInv, running
<1> QED
  BY <1>3, <1>4, <1>6 DEF CheckInv

LEMMA CheckStepInv == CheckInv /\ [CheckNext]_check_vars => CheckInv'
<1> SUFFICES ASSUME CheckInv, [CheckNext]_check_vars PROVE CheckInv'
  OBVIOUS
<1>1. CASE refuse_usage
  BY <1>1, ReturnKeepsCheckInv DEF refuse_usage
<1>2. CASE begin_load
  <2>1. /\ path' \in Formats /\ place' = "exists" /\ place = "choose" /\ usage_ok
        /\ UNCHANGED <<content, calibration, raised, event, files, writing, disturbed>>
        /\ UNCHANGED <<arguments, index, output, printed, exit_code>> /\ exit_code = -1
    BY <1>2 DEF begin_load, file_vars
  <2>2. StoreTypeOK'
    BY <2>1 DEF CheckInv, StoreInv, StoreTypeOK, Places
  <2>3. LoadInv'
    BY <2>1 DEF CheckInv, StoreInv, LoadInv, Ended
  <2>4. LoopInv'
    BY <2>1 DEF CheckInv, LoopInv, usage_ok
  <2>5. ExitInv'
    BY <2>1 DEF CheckInv, ExitInv
  <2> QED
    BY <2>2, <2>3, <2>4, <2>5 DEF CheckInv, StoreInv
<1>3. CASE load_step
  BY <1>3, LoadStepKeepsCheckInv
<1>4. CASE project_next
  BY <1>4, ProjectKeepsCheckInv
<1>5. CASE catch_exception
  BY <1>5, ReturnKeepsCheckInv DEF catch_exception, running
<1>6. CASE print_all
  BY <1>6, ReturnKeepsCheckInv DEF print_all
<1>7. CASE UNCHANGED check_vars
  <2>1. UNCHANGED <<store_vars, arguments, index, output, printed, exit_code>>
    BY <1>7 DEF check_vars
  <2>2. UNCHANGED <<place, raised, calibration>>
    BY <2>1 DEF store_vars, load_vars
  <2>3. LoopInv'
    BY <2>1, <2>2 DEF CheckInv, LoopInv, usage_ok, Projected
  <2>4. ExitInv'
    BY <2>1, <2>2 DEF CheckInv, ExitInv
  <2> QED
    BY <2>1, <2>3, <2>4, UnchangedStoreInv DEF CheckInv
<1> QED
  BY <1>1, <1>2, <1>3, <1>4, <1>5, <1>6, <1>7 DEF CheckNext

LEMMA CheckInductive == CheckSpec => []CheckInv
BY CheckInitInv, CheckStepInv, PTL DEF CheckSpec

(***************************************************************************)
(* For any file, matrix, turn and arguments the tool prints all the points  *)
(* asked for or none, each where the matrix and the turn put it, and each   *)
(* one that the projection to the image takes back. (The loop of main and   *)
(* the two projections: the inverse is the adjugate up to the determinant,  *)
(* and a turn and its opposite cancel up to the square of the norm.)        *)
(***************************************************************************)
THEOREM PointsAreRight == CheckSpec => []PrintedPointsAreRight
<1>1. ASSUME CheckInv PROVE PrintedPointsAreRight
  <2>1. AllOrNothing
    BY <1>1 DEF CheckInv, LoopInv, ExitInv, AllOrNothing
  <2>2. ASSUME NEW k \in 1..Len(printed) PROVE LeadsBack(printed[k]) /\ IsTurned(printed[k])
    <3>1. exit_code = 0 /\ printed = output /\ place = "answer" /\ raised = "none"
      BY <1>1, <2>2 DEF CheckInv, ExitInv
    <3>2. Projected(printed[k])
      BY <1>1, <2>2, <3>1 DEF CheckInv, LoopInv
    <3>3. CalibrationIsTyped
      BY <1>1, <3>1, CalibrationInUseIsTyped DEF CheckInv, Ended
    <3> QED
      BY <3>2, <3>3, ProjectedIsTurned, ProjectedLeadsBack
  <2> QED
    BY <2>1, <2>2 DEF PrintedPointsAreRight
<1> QED
  BY <1>1, CheckInductive, PTL
=============================================================================
