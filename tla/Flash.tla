-------------------------------- MODULE Flash --------------------------------
(***************************************************************************)
(* The W25Q flash under FatFs: disk_write (diskio.c) and W25QXX_Write      *)
(* (spi_flash_w25qx.c), which writes sector by sector.  Flash memory is    *)
(* erased by sectors and programmed by pages, and programming is right     *)
(* only on erased bytes: a sector that holds something is read into one    *)
(* buffer, erased and written back.  One command to the flash is one step, *)
(* and the power may fail at any of them.  There is one caller: the buffer *)
(* and the command words are shared and not locked.                        *)
(*                                                                         *)
(*   flash         the bytes by address                                    *)
(*   job           the local variables of W25QXX_Write; src is how far     *)
(*                 pBuffer has gone                                        *)
(*   page          those of W25QXX_Write_NoCheck; whole says that it       *)
(*                 writes W25QXX_BUFFER back                               *)
(*   stage         "idle", "check" before the test for erased bytes,       *)
(*                 "erase", "program" before a page, "off" without power   *)
(*   before, image what the flash held, and is to hold for the caller      *)
(*   given         the address behind the last byte W25QXX_Write was given *)
(***************************************************************************)
EXTENDS Integers, FiniteSets

CONSTANTS
  SectorSize, PageSize,  \* 4096 and 256
  Sectors,               \* the sectors of the flash
  FirstSector,           \* the first one disk_write uses, 128
  Width,                 \* 2^16, of NumByteToWrite
  Contents               \* the sets of bytes the flash may hold at first

ASSUME FlashAssumption ==
  /\ {SectorSize, PageSize, Sectors, Width} \subseteq Nat \ {0}
  /\ SectorSize % PageSize = 0 /\ FirstSector \in 0 .. Sectors - 1

Address == 0 .. Sectors * SectorSize - 1

ASSUME ContentsAssumption == Contents \subseteq SUBSET Address

Erased  == -1
Garbage == -2      \* a byte programmed twice or half, or half erased
Given(i) == i      \* byte i of what the caller writes
Old(a)   == Sectors * SectorSize + a
Byte == Garbage .. Old(Sectors * SectorSize - 1)

VARIABLES flash, W25QXX_BUFFER, job, page, stage, before, image, given
flash_vars == <<flash, W25QXX_BUFFER, job, page, stage, before, image, given>>

NoJob  == [WriteAddr |-> 0, NumByteToWrite |-> 0, secremain |-> 0, src |-> 0]
NoPage == [WriteAddr |-> 0, NumByteToWrite |-> 0, pageremain |-> 0, src |-> 0,
           whole |-> FALSE]
EmptyBuffer == [i \in 0 .. SectorSize - 1 |-> Erased]

\* Every byte is erased or holds something.
FlashInit ==
  /\ \E full \in Contents :
       flash = [a \in Address |-> IF a \in full THEN Old(a) ELSE Erased]
  /\ W25QXX_BUFFER = EmptyBuffer
  /\ job = NoJob /\ page = NoPage /\ stage = "idle"
  /\ before = flash /\ image = flash /\ given = 0

Lesser(x, y) == IF x <= y THEN x ELSE y
SectorOf(a) == a \div SectorSize
secpos == SectorOf(job.WriteAddr)
secoff == job.WriteAddr % SectorSize

-----------------------------------------------------------------------------
\* The call of W25QXX_Write with n bytes at addr; wanted bytes were asked
\* for, all in the flash.  A bound: one call, from whatever the flash holds.
Request(addr, n, wanted) ==
  /\ addr + wanted - 1 \in Address
  /\ stage = "idle" /\ image = before
  /\ job' = [WriteAddr |-> addr, NumByteToWrite |-> n, src |-> 0,
             secremain |-> Lesser(n, SectorSize - (addr % SectorSize))]
  /\ image' = [a \in Address |->
                 IF a \in addr .. addr + wanted - 1 THEN Given(a - addr) ELSE flash[a]]
  /\ given' = addr + n
  /\ stage' = "check"
  /\ UNCHANGED <<flash, W25QXX_BUFFER, page, before>>

W25QXX_Write(addr, n) == n < Width /\ Request(addr, n, n)

\* count << 12 is cut to 16 bits on the way into W25QXX_Write: of 16 sectors
\* it is given none, and RES_OK is returned.
disk_write(sector, count) ==
  LET n == count * SectorSize
  IN  Request((sector + FirstSector) * SectorSize, n % Width, n)

\* Mutant: the first page is not cut at its end.
FirstPageWhole(src, addr, n, whole) ==
  [WriteAddr |-> addr, NumByteToWrite |-> n, src |-> src, whole |-> whole,
   pageremain |-> Lesser(n, PageSize)]

\* The first page of W25QXX_Write_NoCheck.
FirstPage(src, addr, n, whole) ==
  [WriteAddr |-> addr, NumByteToWrite |-> n, src |-> src, whole |-> whole,
   pageremain |-> Lesser(n, PageSize - (addr % PageSize))]

\* Read where to write: is a byte there not erased?
W25QXX_Check ==
  /\ stage = "check"
  /\ IF \E i \in 0 .. job.secremain - 1 : flash[job.WriteAddr + i] # Erased
     THEN /\ W25QXX_BUFFER' =
               [i \in 0 .. SectorSize - 1 |-> flash[secpos * SectorSize + i]]
          /\ stage' = "erase"
          /\ UNCHANGED page
     ELSE /\ page' = FirstPage(job.src, job.WriteAddr, job.secremain, FALSE)
          /\ stage' = "program"
          /\ UNCHANGED W25QXX_BUFFER
  /\ UNCHANGED <<flash, job, before, image, given>>

\* Mutant: the sector after the one to write is erased.
EraseNext ==
  /\ stage = "erase"
  /\ flash' = [a \in Address |->
                 IF SectorOf(a) = (secpos + 1) % Sectors THEN Erased ELSE flash[a]]
  /\ W25QXX_BUFFER' = [i \in 0 .. SectorSize - 1 |->
                         IF i \in secoff .. secoff + job.secremain - 1
                         THEN Given(job.src + i - secoff) ELSE W25QXX_BUFFER[i]]
  /\ page' = FirstPage(0, secpos * SectorSize, SectorSize, TRUE)
  /\ stage' = "program"
  /\ UNCHANGED <<job, before, image, given>>

\* Erase the sector and put what is to be written into the buffer.
W25QXX_Erase_Sector ==
  /\ stage = "erase"
  /\ flash' = [a \in Address |-> IF SectorOf(a) = secpos THEN Erased ELSE flash[a]]
  /\ W25QXX_BUFFER' = [i \in 0 .. SectorSize - 1 |->
                         IF i \in secoff .. secoff + job.secremain - 1
                         THEN Given(job.src + i - secoff) ELSE W25QXX_BUFFER[i]]
  /\ page' = FirstPage(0, secpos * SectorSize, SectorSize, TRUE)
  /\ stage' = "program"
  /\ UNCHANGED <<job, before, image, given>>

\* What the page program command does to the n bytes at addr: it stays in the
\* page, starting over at its beginning, and can only clear bits.
Touched(p) ==
  LET base == p.WriteAddr - (p.WriteAddr % PageSize)
  IN  [a \in {base + ((p.WriteAddr + i) % PageSize) : i \in 0 .. p.pageremain - 1} |->
         (a - p.WriteAddr) % PageSize]

Programmed(p) ==
  [a \in Address |->
     IF a \notin DOMAIN Touched(p) THEN flash[a]
     ELSE LET i == p.src + Touched(p)[a]
              b == IF p.whole THEN W25QXX_BUFFER[i] ELSE Given(i)
          IN  IF flash[a] = Erased THEN b
              ELSE IF b = Erased THEN flash[a] ELSE Garbage]

NextPage(p) ==
  LET n == p.NumByteToWrite - p.pageremain
  IN  [p EXCEPT !.WriteAddr = @ + p.pageremain, !.src = @ + p.pageremain,
                !.NumByteToWrite = n, !.pageremain = Lesser(n, PageSize)]

NextSector(j) ==
  LET n == j.NumByteToWrite - j.secremain
  IN  [j EXCEPT !.WriteAddr = @ + j.secremain, !.src = @ + j.secremain,
                !.NumByteToWrite = n, !.secremain = Lesser(n, SectorSize)]

\* One page: then the next page, the next sector, or the end.
W25QXX_Write_Page ==
  /\ stage = "program"
  /\ flash' = Programmed(page)
  /\ IF page.NumByteToWrite # page.pageremain
     THEN page' = NextPage(page) /\ UNCHANGED <<job, stage, W25QXX_BUFFER>>
     ELSE /\ page' = NoPage /\ W25QXX_BUFFER' = EmptyBuffer
          /\ IF job.NumByteToWrite # job.secremain
             THEN job' = NextSector(job) /\ stage' = "check"
             ELSE job' = NoJob /\ stage' = "idle"
  /\ UNCHANGED <<before, image, given>>

\* The power fails: the command under way leaves what it touches half done.
PowerFails ==
  /\ stage \in {"check", "erase", "program"}
  /\ LET half == CASE stage = "check"   -> {}
                   [] stage = "erase"   -> {a \in Address : SectorOf(a) = secpos}
                   [] stage = "program" -> DOMAIN Touched(page)
     IN  \/ UNCHANGED flash
         \/ flash' = [a \in Address |-> IF a \in half THEN Garbage ELSE flash[a]]
  /\ stage' = "off"
  /\ UNCHANGED <<W25QXX_BUFFER, job, page, before, image, given>>

\* disk_read, and a system without power, leave everything as it is.
FlashRests == stage \in {"idle", "off"} /\ UNCHANGED flash_vars

FlashNext ==
  \/ \E addr \in Address, n \in Address : W25QXX_Write(addr, n + 1)
  \/ \E sector \in 0 .. Sectors, count \in 1 .. Sectors : disk_write(sector, count)
  \/ W25QXX_Check \/ W25QXX_Erase_Sector \/ W25QXX_Write_Page
  \/ PowerFails \/ FlashRests

-----------------------------------------------------------------------------
FlashTypeOK ==
  /\ {flash, before, image} \subseteq [Address -> Byte]
  /\ W25QXX_BUFFER \in [0 .. SectorSize - 1 -> Byte]
  /\ stage \in {"idle", "check", "erase", "program", "off"}
  /\ job.WriteAddr \in Address /\ job.NumByteToWrite \in 0 .. Width - 1
  /\ job.secremain \in 0 .. SectorSize /\ page.pageremain \in 0 .. PageSize
  /\ given \in 0 .. Sectors * SectorSize

\* What the flash is to hold: the bytes asked for as far as W25QXX_Write was
\* given them, and else what it held.
Meant == [a \in Address |-> IF a < given THEN image[a] ELSE before[a]]

\* A write changes the bytes W25QXX_Write was given and no other, wherever it
\* starts and ends between pages and sectors and whichever bytes the flash
\* held before.  The sectors of a disk_write beyond the 16 bits of the length
\* (diskio.c:98) keep what they held.
WrittenAsGiven == stage = "idle" => flash = Meant

\* When the power fails, only the sector under way loses bytes that were not
\* to be written: those before it hold what they are to hold, those after it
\* what they held.
LossIsLocal ==
  stage = "off" =>
    \A a \in Address :
      /\ SectorOf(a) < secpos => flash[a] = Meant[a]
      /\ SectorOf(a) > secpos => flash[a] = before[a]
=============================================================================
