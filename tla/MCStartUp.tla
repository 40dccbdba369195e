-------------------------------- MODULE MCStartUp --------------------------------
(* A data folder with two directories, one of three entries: with blocks   *)
(* of two records it takes two reads of a small buffer or one of a large.  *)
EXTENDS StartUpPS5, TLC

MCKids == ".kodi" :> <<"temp", "userdata", "log">> @@ "userdata" :> <<"db">> @@ "temp" :> << >>
MCBlocked == {{}, {"log"}, {"userdata"}}
MCWorking == {"/download0" :> {"unix"} @@ "/data/kodi" :> {"unix-none"},
              "/download0" :> {"unix-dotfile"} @@ "/data/kodi" :> {}}
===============================================================================
