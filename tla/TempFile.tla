-------------------------------- MODULE TempFile --------------------------------
(* The content of a temporary file, as os.File writes it.                     *)
EXTENDS Integers, Sequences

\* A content after bytes are written at an offset; a hole reads as zeros.
Overwrite(content, at, bytes) ==
  LET end == at + Len(bytes)
  IN  [i \in 1..(IF end > Len(content) THEN end ELSE Len(content)) |->
         IF i \in (at + 1)..end THEN bytes[i - at]
         ELSE IF i <= Len(content) THEN content[i] ELSE 0]

================================================================================
