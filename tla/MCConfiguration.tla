--------------------------- MODULE MCConfiguration ---------------------------
(***************************************************************************)
(* The configuration with small files, documents and pictures; and, as     *)
(* another start, a ring buffer by itself.                                 *)
(***************************************************************************)
EXTENDS Configuration, RingQueue, TLC

MCInputs == {<<"a">>, <<"b">>, <<"a", "b">>, <<"a", "a", "b", "b", "a">>}

MCNumbers == [n \in {"1", "2", "8", "30", "0", "-1"} |->
               CASE n = "1" -> 1 [] n = "2" -> 2 [] n = "8" -> 8 [] n = "30" -> 30
                 [] n = "0" -> 0 [] n = "-1" -> -1]
MCCodes == (<<"4", "1">> :> "A") @@ (<<"4">> :> "EOT")

MCTexts == {<< >>, <<"\n">>, <<"a", "b", "\n", "c">>, <<"a", "\n", "\n", "b", "\n">>}

Group(name) == [kind |-> "group", group |-> <<name>>]
Pair(style, key, value) == [kind |-> "pair", style |-> style, key |-> key, value |-> value]
Comment == [kind |-> "comment"]
Blank == [kind |-> "blank"]
Broken(line) == [kind |-> "broken", line |-> line]

General == <<
  Pair("spaced", <<"default_frame">>, <<"1">>),
  Comment,
  Group("a"),
  Pair("quoted", <<"k", "/", "1">>, <<"x", "\n", "\"", "A", "\\", "y">>),
  Pair("plain", <<"k", "/", "2">>, <<"x", "=", "#">>),
  Group("General"),
  Pair("quoted", <<"k">>, <<" ", "x", " ">>),
  Blank,
  Group("a"),
  Pair("plain", <<"k", "/", "2">>, << >>),
  Pair("spaced", <<"k", "/", "1">>, <<"z">>)>>

(* A settings file with the lists of one element of the formats.           *)
Devices(format, width, height, fps) == <<
  Group("Cameras"),
  Pair("plain", <<"cameras", "/", "size">>, <<"2">>),
  Pair("plain", <<"cameras", "/", "1", "/", "description">>, <<"a">>),
  Pair("plain", <<"cameras", "/", "1", "/", "formats">>, <<"8", ",", "x", ",", "2", ",", "1">>),
  Pair("plain", <<"cameras", "/", "1", "/", "direct_mode">>, <<"True">>),
  Pair("plain", <<"cameras", "/", "1", "/", "videonr">>, <<"-1">>),
  Pair("quoted", <<"cameras", "/", "2", "/", "description">>, <<"b">>),
  Pair("plain", <<"cameras", "/", "2", "/", "type">>, <<"output">>),
  Pair("spaced", <<"cameras", "/", "2", "/", "mode">>, <<"rw", ",", " ", "mmap">>),
  Pair("plain", <<"cameras", "/", "2", "/", "formats">>, <<"1">>),
  Group("Formats"),
  Pair("plain", <<"formats", "/", "size">>, <<"2">>),
  Pair("plain", <<"formats", "/", "1", "/", "format">>, format),
  Pair("plain", <<"formats", "/", "1", "/", "width">>, width),
  Pair("plain", <<"formats", "/", "1", "/", "height">>, height),
  Pair("plain", <<"formats", "/", "1", "/", "fps">>, fps),
  Pair("plain", <<"formats", "/", "2", "/", "format">>, <<"RGB32">>),
  Pair("plain", <<"formats", "/", "2", "/", "width">>, width)>>

MCEntries == {
  << >>, General, <<Blank, Blank>>,
  SubSeq(General, 1, 4) \o <<Broken(<<" ">>)>>,
  <<Group("a"), Broken(<<"[", "]">>)>>,
  <<Broken(<<" ", "=", "x">>), Group("a")>>,
  Devices(<<"RGB24">>, <<"8">>, <<"2">>, <<"30">>),
  Devices(<<"RGB24", ",", "none", ",", "YUY2">>, <<"8", ",", " ", "2">>, <<"2">>, <<"30", "/", "1">>),
  Devices(<<"RGB24", ",", "YUY2">>, <<"8", ",", "2">>, <<"2", ",", "x", ",", "8">>,
          <<"30", ",", "1", "/", "0", ",", "1", "/", "2">>)}

MCDocuments == [entries : MCEntries, ended : {FALSE}]
                 \cup {[entries |-> General, ended |-> TRUE]}

Red == <<255, 3, 2, 1>>
Blue == <<255, 4, 5, 6>>
Thin == <<9, 3, 2, 1>>

Bitmap(form, rows, down, missing) ==
  LET w == Len(rows[1]) IN
  [form |-> form, width |-> w, height |-> Len(rows), top_down |-> down, missing |-> missing,
   palette |-> <<Red, Blue>>,
   picture |-> [p \in (0 .. w - 1) \X (0 .. Len(rows) - 1) |-> rows[p[2] + 1][p[1] + 1]]]

MCBitmaps ==
  {Bitmap(f, <<<<Red, Blue, Blue>>, <<Blue, Red, Red>>, <<Red, Red, Red>>>>, d, m) :
    f \in {"indexed", "runs", "ended runs", "literals", "alpha"}, d \in BOOLEAN, m \in {0, 3}}
  \cup {Bitmap(f, <<<<Red, Red, Blue, Red>>, <<Blue, Red, Red, Blue>>>>, d, 0) :
         f \in {"colours", "literals"}, d \in BOOLEAN}
  \cup {Bitmap("skips", <<<<Unset, Blue, Unset>>, <<Blue, Unset, Red>>>>, d, m) :
         d \in BOOLEAN, m \in {0, 3}}
  \cup {Bitmap("skips", <<<<Red, Unset, Unset>>, <<Unset, Unset, Unset>>, <<Unset, Blue, Red>>>>,
               d, 0) : d \in BOOLEAN}
  \cup {Bitmap("alpha", <<<<Thin, Blue>>, <<Red, Thin>>>>, d, 0) : d \in BOOLEAN}
  \cup {Bitmap("colours", <<<<Red, Blue>>, <<Blue, Red>>>>, d, 0) : d \in BOOLEAN}

MCInit == Init /\ RingInit

(* The two have nothing to do with each other: the buffer moves only where
   the configuration has not, and the other way round.                     *)
MCNext ==
  \/ Next /\ ring.size = 0 /\ taken = << >> /\ UNCHANGED <<ring, taken>>
  \/ /\ task.what = "read" /\ task.content = << >> /\ task.block = 5 /\ ~file.is_open
     /\ last = NoOperation /\ failures = MaxFailures
     /\ RingNext
     /\ UNCHANGED vars

MCSpec == MCInit /\ [][MCNext]_<<vars, ring, taken>> /\ Fairness
=============================================================================
