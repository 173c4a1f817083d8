-------------------------------- MODULE Buffer -------------------------------
(***************************************************************************)
(* A buffer (src/libks/buffer.c), and how files are read into one          *)
(* (buffer_read_fd_impl, src/libks/arena-buffer.c) while another process   *)
(* may append to them.  The file is known by its length, so what is read   *)
(* of it by its own; the bytes a client puts are newlines or not.          *)
(***************************************************************************)
EXTENDS Growth, Sequences

CONSTANTS
  Newline, Char, NUL, \* the bytes told apart
  FileMax,            \* bound on the length of the file
  Part,               \* the part of the capacity that is kept free: 8
  PutMax              \* bound on the length of the buffer

ASSUME PartAssumption == Part \in 1 .. FirstSize /\ PutMax \in Nat
ASSUME FileAssumption == FileMax \in 0 .. MaxWord
ASSUME ByteAssumption == Newline # NUL /\ Newline # Char

VARIABLES
  bsiz,    \* bf_siz
  buf,     \* the bytes up to bf_len; those of the file are Char
  file,    \* the length of the file
  atOpen,  \* history: its length when it was opened
  more,    \* doreserve
  reading, \* "no", "open", "read", "done", "failed"
  goff,    \* getline->off
  lines,   \* history: the lines returned, and where each of them begins
  berrno   \* whether the last call failed with EOVERFLOW

bufferVars == <<bsiz, buf, file, atOpen, more, reading, goff, lines, berrno>>
fileVars == <<file, atOpen, more, reading>>
lineVars == <<goff, lines>>

Bytes == {Newline, Char}

BufferInit ==
  /\ bsiz = 0 /\ buf = <<>>
  /\ file \in 0 .. FileMax /\ atOpen = 0 /\ more = FALSE /\ reading = "no"
  /\ goff = 0 /\ lines = <<>> /\ berrno = FALSE

\* buffer_reserve: the capacity, with room for n more, or 0 on overflow.
Room(siz, len, n, overshoot) ==
  IF siz > 0 /\ siz >= len + n THEN siz
  ELSE IF len > MaxWord - n THEN 0
  ELSE IF overshoot THEN Doubled(siz, len + n)
  ELSE len + n

\* buffer_puts, buffer_putc; buffer_printf makes room for the NUL as well.
Puts(str, room) ==
  LET siz == Room(bsiz, Len(buf), room, TRUE)
  IN  /\ reading = "no" /\ Len(buf) + Len(str) <= PutMax
      /\ IF siz = 0 THEN berrno' = TRUE /\ UNCHANGED <<bsiz, buf>>
         ELSE bsiz' = siz /\ buf' = buf \o str /\ berrno' = FALSE
      /\ goff = 0
      /\ UNCHANGED <<fileVars, lineVars>>

\* buffer_pop, buffer_reset
BufferPop ==
  /\ reading = "no" /\ goff = 0 /\ buf # <<>>
  /\ \E n \in 1 .. Len(buf) : buf' = SubSeq(buf, 1, Len(buf) - n)
  /\ UNCHANGED <<bsiz, fileVars, lineVars, berrno>>

\* The position of the first newline from off on, or behind the last byte.
NewlineAt(off) ==
  LET at == {i \in off + 1 .. Len(buf) : buf[i] = Newline}
  IN  IF at = {} THEN Len(buf) + 1 ELSE CHOOSE i \in at : \A j \in at : i <= j

\* buffer_getline_impl
Getline ==
  /\ reading = "no" /\ goff < Len(buf)
  /\ lines' = Append(lines, [at  |-> goff + 1,
                            str |-> SubSeq(buf, goff + 1, NewlineAt(goff) - 1)])
  /\ goff' = NewlineAt(goff)
  /\ UNCHANGED <<bsiz, buf, fileVars, berrno>>

\* buffer_str, once the lines are read: the string ends with one NUL.
Str ==
  /\ reading = "no" /\ goff >= Len(buf)
  /\ LET siz == IF buf = <<>> \/ buf[Len(buf)] # NUL
                THEN Room(bsiz, Len(buf), 1, TRUE) ELSE bsiz
     IN  IF siz = 0 THEN berrno' = TRUE /\ UNCHANGED <<bsiz, buf>>
         ELSE bsiz' = 0 /\ buf' = <<>> /\ berrno' = FALSE
  /\ goff' = 0 /\ lines' = <<>>
  /\ UNCHANGED fileVars

\* The process that writes the file appends to it.
FileGrow ==
  /\ file < FileMax /\ reading \in {"open", "read"}
  /\ file' = file + 1
  /\ UNCHANGED <<bsiz, buf, atOpen, more, reading, lineVars, berrno>>

\* arena_buffer_read: the first estimate of the size is the first capacity.
FileOpen ==
  /\ reading = "no" /\ buf = <<>> /\ goff = 0
  /\ bsiz' = IF file = 0 THEN Room(0, 0, FirstSize, TRUE) ELSE Room(0, 0, file, FALSE)
  /\ atOpen' = file
  /\ reading' = "open"
  /\ UNCHANGED <<buf, file, more, lineVars, berrno>>

\* arena_buffer_read_fd: the capacity is fixed.
FileOpenFd ==
  /\ reading = "no" /\ buf = <<>> /\ goff = 0
  /\ bsiz' = Room(0, 0, FirstSize, TRUE)
  /\ atOpen' = file
  /\ reading' = "open"
  /\ UNCHANGED <<buf, file, more, lineVars, berrno>>

\* Variant: the buffer is taken to be too small when it is too large.
EstimateSwapped == more' = (file < bsiz - Len(buf))

\* Whether the buffer must grow: the second estimate is not what it has room for.
Estimate == more' = (file # bsiz - Len(buf))

FileEstimate ==
  /\ reading = "open"
  /\ Estimate
  /\ reading' = "read"
  /\ UNCHANGED <<bsiz, buf, file, atOpen, lineVars, berrno>>

\* One read of the loop of buffer_read_fd_impl: what is there, or less of it.
FileRead ==
  /\ reading = "read"
  /\ LET room == bsiz - Len(buf)
         left == file - Len(buf)
         most == IF room < left THEN room ELSE left
     IN  IF most <= 0
         THEN reading' = "done" /\ UNCHANGED <<bsiz, buf, berrno>>
         ELSE \E n \in 1 .. most :
                LET siz == IF more THEN Room(bsiz, Len(buf) + n, bsiz \div Part, TRUE)
                           ELSE bsiz
                IN  /\ buf' = buf \o [i \in 1 .. n |-> Char]
                    /\ bsiz' = IF siz = 0 THEN bsiz ELSE siz
                    /\ berrno' = (siz = 0)
                    /\ reading' = IF siz = 0 THEN "failed" ELSE "read"
  /\ UNCHANGED <<file, atOpen, more, lineVars>>

\* buffer_free
BufferFree ==
  /\ reading \in {"done", "failed"}
  /\ bsiz' = 0 /\ buf' = <<>> /\ reading' = "no" /\ berrno' = FALSE
  /\ atOpen' = 0 /\ more' = FALSE
  /\ UNCHANGED <<file, lineVars>>

BufferNext ==
  \/ \E b \in Bytes \cup {NUL} : Puts(<<b>>, 1)
  \/ \E a, b \in Bytes : Puts(<<a, b>>, 2) \/ Puts(<<a, b>>, 3)
  \/ BufferPop \/ Getline \/ Str
  \/ FileGrow \/ FileOpen \/ FileOpenFd \/ FileEstimate \/ FileRead \/ BufferFree

BufferSpec == BufferInit /\ [][BufferNext]_bufferVars
-----------------------------------------------------------------------------
Text == Seq(Bytes \cup {NUL})
Line == [at : Nat, str : Text]

BufferTypeOK ==
  /\ bsiz \in 0 .. MaxWord /\ buf \in Text /\ Len(buf) <= bsiz
  /\ file \in 0 .. FileMax /\ atOpen \in 0 .. FileMax
  /\ more \in BOOLEAN /\ berrno \in BOOLEAN
  /\ goff \in 0 .. Len(buf) + 1 /\ lines \in Seq(Line)
  /\ reading \in {"no", "open", "read", "done", "failed"}

\* A file that was read holds at least what it held when it was opened, however
\* it grows between the two estimates of its size and the reads.
ReadEnough == reading = "done" => Len(buf) >= atOpen

\* The position behind the last byte of a line: that of its newline.
Behind(line) == line.at + Len(line.str)

\* The lines are the bytes between the newlines, each with one newline behind it
\* but for the last, which may lack it: the first begins where the buffer does,
\* each other behind the newline of the one before, and the next one at goff.
LinesAreContent ==
  /\ goff = IF lines = <<>> THEN 0 ELSE Behind(lines[Len(lines)])
  /\ \A i \in DOMAIN lines :
       /\ lines[i].at = IF i = 1 THEN 1 ELSE Behind(lines[i - 1]) + 1
       /\ \A j \in 1 .. Len(lines[i].str) :
            lines[i].str[j] # Newline /\ lines[i].str[j] = buf[lines[i].at + j - 1]
       /\ Behind(lines[i]) \in 1 .. Len(buf) + 1
       /\ Behind(lines[i]) <= Len(buf) => buf[Behind(lines[i])] = Newline

\* buffer_read returns no less than the file held when it was opened, though the
\* file grows meanwhile, and buffer_getline hands out all of it, line by line.
BufferSound == BufferTypeOK /\ ReadEnough /\ LinesAreContent
=============================================================================
