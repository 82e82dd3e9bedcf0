----------------------------- MODULE MCCalibration -----------------------------
(* The two programs that load calibrations, one or the other: the engine, on *)
(* scenario after scenario while somebody writes the files, and the tool.    *)
EXTENDS CalibrationCheck

VARIABLE program \* who loads: "engine" or "tool"

tool_vars == <<arguments, index, output, printed, exit_code>>

File(image, board, homography, offset) ==
    [ fields |-> TRUE, points_image |-> image, points_board |-> board,
      homography |-> homography, offset |-> offset ]

\* The second has the horizon y = 1, the third no inverse.
Plain == << <<1, 0, -2>>, <<0, -1, 2>>, <<0, 0, 1>> >>
Tilted == << <<1, 1, -2>>, <<0, -1, 3>>, <<0, 1, -1>> >>
Flat == << <<1, 0, -2>>, <<2, 0, -4>>, <<0, 0, 1>> >>
ThreeMatrices == {Plain, Tilted, Flat}

None == [cos |-> 1, sin |-> 0, norm |-> 1]
Quarter == [cos |-> 0, sin |-> 1, norm |-> 1]
Half == [cos |-> -1, sin |-> 0, norm |-> 1]
ThreeFourFive == [cos |-> 4, sin |-> -3, norm |-> 5]

\* Files that can be used, for the tool.
SoundFiles ==
    [ json |-> {File(4, 4, m, turn) : m \in {Plain, Tilted}, turn \in {None, Quarter, Half, ThreeFourFive}},
      fs   |-> {File(0, 0, Flat, Quarter), File(0, 0, Tilted, ThreeFourFive)} ]

\* A sound one and one for each way of being wrong, for the engine: too few
\* points, unequal numbers of points, points without a homography, a matrix of
\* the wrong shape or none, a wrong field.
Sound == File(4, 4, Plain, None)
KindsOfFile ==
    [ json |-> { Sound, File(3, 3, Plain, None), File(4, 5, Plain, None), File(4, 4, NoHomography, None),
                 [Sound EXCEPT !.fields = FALSE] },
      fs   |-> { Sound, File(0, 0, Plain, None), File(4, 4, NoHomography, None), File(4, 4, Misshapen, None),
                 [Sound EXCEPT !.fields = FALSE] } ]

AllFiles == [f \in {"fs", "json"} |-> SoundFiles[f] \cup KindsOfFile[f]]

Within(kinds) == \A f \in Formats : files[f] \in kinds[f] \cup {Absent, Torn}

ThreeNumbers == {0, 1, 3}

EitherInit ==
    /\ CheckInit
    /\ \/ program = "engine" /\ arguments = <<>> /\ Within(KindsOfFile)
       \/ program = "tool" /\ Within(SoundFiles)

EitherNext ==
    /\ \/ program = "engine" /\ StoreNext /\ UNCHANGED tool_vars
       \/ program = "tool" /\ CheckNext
    /\ UNCHANGED program

EitherSpec == EitherInit /\ [][EitherNext]_<<check_vars, program>>

\* Bound: the files are written under the engine only, and only with its kinds.
Bounded == writes > 0 => program = "engine" /\ Within(KindsOfFile)
=============================================================================
