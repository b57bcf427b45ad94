----------------------------- MODULE PanelDriver -----------------------------
(***************************************************************************)
(* HAL_Init(), and the ST7796S panel it brings up: the controller keeps    *)
(* what it was told across a warm restart, the driver does not.            *)
(*                                                                         *)
(* An operation on the panel is a job: its address window, and the pixels  *)
(* of each of its data transfers. Any transfer may fail, and may have      *)
(* reached the controller when it does.                                    *)
(***************************************************************************)
EXTENDS Integers, Sequences, SequencesExt

CONSTANTS
  PanelW, PanelH,   \* ST7796S_WIDTH, ST7796S_HEIGHT, also s_disp_w and s_disp_h
  Chunk,            \* FILL_CHUNK_PIXELS
  MaxFaults         \* bound: calls and transfers that fail

ASSUME PanelOK == {PanelW, PanelH, Chunk} \subseteq Nat \ {0} /\ MaxFaults \in Nat

VARIABLES
  hal,      \* "starting", "up", or "failed": app_main() loops forever
  step,     \* the step of BringUp that is next
  heeded,   \* the commands of the panel's setup it has obeyed since it was reset
  light,    \* the backlight pin: "on", "off" or "floating"
  faults

panelVars == <<hal, step, heeded, light, faults>>

Panel == (0 .. PanelW - 1) \X (0 .. PanelH - 1)
Paint == -1

Lesser(a, b)  == IF a < b THEN a ELSE b
Greater(a, b) == IF a < b THEN b ELSE a

\* g drawn over f.
Over(f, g) == [p \in DOMAIN f \cup DOMAIN g |-> IF p \in DOMAIN g THEN g[p] ELSE f[p]]
Blank      == [p \in {} |-> Paint]

-----------------------------------------------------------------------------
(* The jobs of the driver *)

Job(x1, y1, x2, y2, parts) == [cols |-> <<x1, x2>>, rows |-> <<y1, y2>>, parts |-> parts]

\* total pixels of one colour, through the buffer of a chunk.
Chunks(total) ==
  [i \in 1 .. (total + Chunk - 1) \div Chunk |-> [k \in 1 .. Lesser(Chunk, total - (i - 1) * Chunk) |-> Paint]]

PanelPixel(x, y) == IF <<x, y>> \in Panel THEN <<Job(x, y, x, y, << <<Paint>> >>)>> ELSE << >>

PanelFillRect(x, y, w, h) ==
  LET x2 == Lesser(x + w - 1, PanelW - 1)
      y2 == Lesser(y + h - 1, PanelH - 1)
  IN  IF w > 0 /\ h > 0 /\ <<x, y>> \in Panel
      THEN <<Job(x, y, x2, y2, Chunks((x2 - x + 1) * (y2 - y + 1)))>> ELSE << >>

PanelBlitRow(x, y, row) ==
  LET len == Lesser(Len(row), PanelW - x)
  IN  IF row # << >> /\ <<x, y>> \in Panel
      THEN <<Job(x, y, x + len - 1, y, <<SubSeq(row, 1, len)>>)>> ELSE << >>

\* What the router adds to them: nothing is drawn before the backend is up.
Routed(jobs) == IF hal = "up" THEN jobs ELSE << >>

-----------------------------------------------------------------------------
(* Transfers *)

\* The transfers of a job: CASET and its columns, RASET and its rows, RAMWR, the data.
Transfers(job) == 5 + Len(job.parts)

FullWindow == [cols |-> <<0, PanelW - 1>>, rows |-> <<0, PanelH - 1>>]
Area(job)  == (job.cols[1] .. job.cols[2]) \X (job.rows[1] .. job.rows[2])

\* Where a transfer fails: the job, the transfer, whether it reached the controller. Transfer 0 is
\* the buffer that could not be allocated.
NoCut == [job |-> 0, at |-> 0, reached |-> FALSE]
Cuts(jobs) ==
  UNION {{[job |-> j, at |-> i, reached |-> r] : i \in 0 .. Transfers(jobs[j]), r \in BOOLEAN} :
           j \in DOMAIN jobs}

\* Mutant of Obeyed: an address window that could not be set is written to all the same.
ObeyedAnyway(cut, i) == (i > 4 /\ cut.at \in 1 .. 4) \/ i < cut.at \/ (i = cut.at /\ cut.reached)

\* Whether the controller obeys transfer i of a job whose transfer cut.at fails: the driver gives up
\* at the first error.
Obeyed(cut, i) == i < cut.at \/ (i = cut.at /\ cut.reached)

\* CASET and RASET, the window of the controller before them being win.
SetAddressWindow(win, job, cut) ==
  [cols |-> IF Obeyed(cut, 2) THEN job.cols ELSE win.cols,
   rows |-> IF Obeyed(cut, 4) THEN job.rows ELSE win.rows]

\* The controller fills its window row by row, and begins again at its end.
Streamed(win, data) ==
  LET w == win.cols[2] - win.cols[1] + 1
      h == win.rows[2] - win.rows[1] + 1
      At(k) == <<win.cols[1] + (k % w), win.rows[1] + ((k \div w) % h)>>
      final(p) == Max({k \in 0 .. Len(data) - 1 : At(k) = p})
  IN  [p \in {At(k) : k \in 0 .. Len(data) - 1} |-> data[final(p) + 1]]

\* One job after another, s being the window and what has been written.
Played(s, job, cut) ==
  LET win  == SetAddressWindow(s.win, job, cut)
      sent == [i \in DOMAIN job.parts |-> IF Obeyed(cut, 5 + i) THEN job.parts[i] ELSE << >>]
  IN  [win |-> win, out |-> Over(s.out, Streamed(win, FlattenSeq(sent)))]

\* What jobs write; the drawing primitives look at no result and go on to the next job.
Whole(job) == [at |-> Transfers(job) + 1, reached |-> FALSE]
Shown(jobs, cut, win) ==
  LET after[j \in 0 .. Len(jobs)] ==
        IF j = 0 THEN [win |-> win, out |-> Blank]
        ELSE Played(after[j - 1], jobs[j], IF j = cut.job THEN cut ELSE Whole(jobs[j]))
  IN  after[Len(jobs)].out

-----------------------------------------------------------------------------
(* HAL_Init() *)

\* The pins of the board, which gpio_config() and the checks of pdl_board_init() accept: the
\* ESP32-S3 has no GPIO 22 to 25.
Pins     == {0, 4, 5, 6, 7, 8, 10, 16}
ValidGpio(pin) == pin \in (0 .. 48) \ (22 .. 25)
PinsValid == \A pin \in Pins : ValidGpio(pin)

\* st7796s_run_init_sequence()
InitSequence == <<"SWRESET", "SLPOUT", "MADCTL", "COLMOD", "INVON", "FRMCTR1", "INVCTR", "PWCTR1", "PWCTR2",
                  "PWCTR3", "VMCTR1", "VMCTR2", "GMCTRP1", "GMCTRN1", "CASET", "RASET", "RAMWR", "clear",
                  "NORON", "DISPON">>

\* The order of HAL_Init(), HAL_Display_Init() and HAL_Display_ST7796S_Init().
BringUp == <<"board", "i2c", "spi", "rtc", "mutex", "gpio", "reset", "device">> \o InitSequence
             \o <<"RDDID", "light", "sensors", "audio">>

\* Mutant of Soft: the pixel format is one more command whose failure is only logged.
SoftFormat == {"rtc", "INVON", "clear", "COLMOD", "RDDID", "sensors", "audio"}

\* What may fail without failing HAL_Init().
Soft == {"rtc", "INVON", "clear", "RDDID", "sensors", "audio"}

Doing(s) == hal = "starting" /\ BringUp[step] = s
Proceed  == IF step = Len(BringUp) THEN hal' = "up" /\ step' = 1 ELSE UNCHANGED hal /\ step' = step + 1
Failed   == hal' = "failed" /\ UNCHANGED step

Succeeds == Proceed /\ UNCHANGED faults
Fails ==
  /\ faults < MaxFaults /\ faults' = faults + 1
  /\ IF BringUp[step] \in Soft THEN Proceed ELSE Failed

\* pdl_board_init() leaves the backlight on.
Board ==
  /\ Doing("board")
  /\ IF PinsValid THEN Proceed /\ light' = "on" ELSE Failed /\ UNCHANGED light
  /\ UNCHANGED <<heeded, faults>>

\* The bus drivers, and their mutexes. A transfer to the RTC that fails leaves it absent.
I2cInit == Doing("i2c") /\ (Succeeds \/ Fails) /\ UNCHANGED <<heeded, light>>
SpiInit == Doing("spi") /\ (Succeeds \/ Fails) /\ UNCHANGED <<heeded, light>>
RtcInit == Doing("rtc") /\ (Succeeds \/ Fails) /\ UNCHANGED <<heeded, light>>

\* HAL_Display_Init() before it calls the backend.
CreateMutex == Doing("mutex") /\ (Succeeds \/ Fails) /\ UNCHANGED <<heeded, light>>

\* HAL_Display_ST7796S_Init()
GpioInit  == Doing("gpio") /\ Succeeds /\ light' = "off" /\ UNCHANGED heeded
HardReset == Doing("reset") /\ Succeeds /\ heeded' = {} /\ UNCHANGED light
AddDevice == Doing("device") /\ (Succeeds \/ Fails) /\ UNCHANGED <<heeded, light>>

\* A command of the sequence, with its data; SWRESET undoes the ones before it.
Obeys(s) == heeded' = (IF s = "SWRESET" THEN {} ELSE heeded \cup {s})
SendCommand ==
  \E s \in ToSet(InitSequence) :
    /\ Doing(s) /\ UNCHANGED light
    /\ \/ Succeeds /\ Obeys(s)
       \/ Fails /\ UNCHANGED heeded
       \/ Fails /\ Obeys(s)

ReadId   == Doing("RDDID") /\ (Succeeds \/ Fails) /\ UNCHANGED <<heeded, light>>
LightsOn == Doing("light") /\ Succeeds /\ light' = "on" /\ UNCHANGED heeded

\* A sensor that does not answer is left out, and so is the amplifier.
SensorsInit == Doing("sensors") /\ (Succeeds \/ Fails) /\ UNCHANGED <<heeded, light>>
AudioInit   == Doing("audio") /\ (Succeeds \/ Fails) /\ UNCHANGED <<heeded, light>>

HalInit == Board \/ I2cInit \/ SpiInit \/ RtcInit \/ CreateMutex \/ GpioInit \/ HardReset \/ AddDevice
           \/ SendCommand \/ ReadId \/ LightsOn \/ SensorsInit \/ AudioInit

\* Power comes, or comes back; or the chip alone is reset.
PanelInit == hal = "starting" /\ step = 1 /\ heeded = {} /\ light = "floating" /\ faults = 0
Restarted ==
  /\ hal' = "starting" /\ step' = 1 /\ heeded' \in {heeded, {}} /\ light' = "floating"
  /\ UNCHANGED faults

=============================================================================
