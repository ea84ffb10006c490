------------------------ MODULE MCThreadedFileWriter ------------------------
(* ThreadedFileWriter with the recorder thread, which writes, seeks and     *)
(* flushes, and TVRec's event thread, which flushes, resizes and deletes.   *)
EXTENDS ThreadedFileWriter

CONSTANTS recorder, tvrec

TwoClients == {recorder, tvrec}
OneSize == {3}
TwoSizes == {3, 4}
AllFaults == {"EFBIG", "EIO"}
FileTooBig == {"EFBIG"}
=============================================================================
