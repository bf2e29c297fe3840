------------------------------ MODULE Decoders ------------------------------
(***************************************************************************)
(* Loading a texture or a sound: the caller (r_texture_load in             *)
(* src/src/render/r_texture.c, snd_load in src/src/sound/snd.c), which     *)
(* tries the decoders in order (src/src/image/image.c), the decoders       *)
(* (image_png.c, image_jpeg.c, snd_wav.c, snd_ogg.c, snd_flac.c), and what *)
(* each of them takes and gives back, whichever step of it fails.          *)
(*                                                                         *)
(* Left out: what is in the files; saving images; cgbitmap and pvrtc, of   *)
(* other systems; allocations whose failure is not noticed, after which    *)
(* the code writes through NULL.  A texture that is listed already does    *)
(* not come here (module Sprites).                                         *)
(***************************************************************************)
EXTENDS Integers, Sequences, FiniteSets, Shared

CONSTANT Usable     (* The decoders that are compiled in and not turned off. *)

Resource == {"file", "decoder", "data", "copy", "gl", "struct"}
Image    == {"png", "jpg", "jpeg"}
Stream   == {"wav", "ogg", "flac"}

ASSUME DecodersAssumption ==
  /\ Usable \subseteq Image \cup Stream /\ ("jpg" \in Usable <=> "jpeg" \in Usable)
  /\ NONE \notin Image \cup Stream

VARIABLES
  caller,     (* What is being loaded, or NONE.                              *)
  tries,      (* The extensions left to try.                                 *)
  job,        (* The decoder under way, the caller after one, or NONE.       *)
  step,       (* The step of it that comes next.                             *)
  held,       (* What has been taken and not given back.                     *)
  stale,      (* stream.data points to data that has been freed.             *)
  outcome,    (* Of the last load.                                           *)
  lost,       (* History: what nobody can give back, and who lost it where,  *)
  twice       (* and what was given back when it was not held.               *)

decodersVars == <<caller, tries, job, step, held, stale, outcome, lost, twice>>

DecodersInit ==
  /\ caller = NONE /\ tries = <<>> /\ job = NONE /\ step = 1
  /\ held = {} /\ stale = FALSE /\ outcome = "none"
  /\ lost = {} /\ twice = {}

-----------------------------------------------------------------------------
(* The jobs: their steps, what a step gives back when it succeeds, and     *)
(* what the error path may give back when it fails; a step that is not in  *)
(* bad does not fail.                                                      *)

(* After longjmp, image is what it was before setjmp or is now: C leaves   *)
(* the value of a local that is not volatile open.                         *)
Png ==
  [steps |-> <<"decoder", "header", "data", "rows">>,
   ok    |-> [rows |-> {"file", "decoder"}],
   bad   |-> [decoder |-> {{"file"}}, header |-> {{"file", "decoder"}},
              rows |-> {{"file", "decoder"}, {"file", "decoder", "data"}}]]

Jpeg ==
  [steps |-> <<"decoder", "header", "data", "rows">>,
   ok    |-> [rows |-> {"file", "decoder"}],
   bad   |-> [decoder |-> {{"file"}}, header |-> {{"file", "decoder"}},
              rows |-> {{"file", "decoder"}, {"file", "decoder", "data"}}]]

Wav ==
  [steps |-> <<"header", "data", "rows">>,
   ok    |-> [rows |-> {"file"}],
   bad   |-> [header |-> {{"file"}}, data |-> {{"file"}}, rows |-> {{"file", "data"}}]]

(* ov_clear closes the file, unless ov_open_callbacks has failed; an error *)
(* of ov_read only ends the data.                                          *)
Ogg ==
  [steps |-> <<"decoder", "open", "header", "data", "rows">>,
   ok    |-> [rows |-> {"file", "decoder"}],
   bad   |-> [decoder |-> {{"file"}}, open |-> {{"decoder"}},
              header |-> {{"file", "decoder"}}, data |-> {{"file", "decoder"}}]]

(* The file is closed through stream->file, which is set after the decoder *)
(* is there; and only when something has failed.                           *)
Flac ==
  [steps |-> <<"decoder", "open", "header", "data", "rows">>,
   ok    |-> [rows |-> {"decoder"}],
   bad   |-> [decoder |-> {{}}, open |-> {{"file", "decoder"}},
              header |-> {{"file", "decoder"}}, data |-> {{"file", "decoder"}},
              rows |-> {{"file", "decoder", "data"}}]]

(* gl_texture_create can fail only where it scales the image or resizes    *)
(* it, which replaces the data or keeps what it was given.                 *)
Scaling == [fails |-> {{"data"}}]

(* Fault: the texture is not deleted when its structure is not allocated.  *)
TextureKept ==
  [steps |-> <<"gl", "struct">>, ok |-> [gl |-> {"data"}],
   bad   |-> [gl |-> Scaling.fails, struct |-> {{"data"}}]]

(* r_texture_load from the image on; the last error path frees image.data  *)
(* a second time.                                                          *)
Texture ==
  [steps |-> <<"gl", "struct">>, ok |-> [gl |-> {"data"}],
   bad   |-> [gl |-> Scaling.fails, struct |-> {{"gl", "data"}}]]

(* With a copy of the image for r_sprite_load, which frees it when it has  *)
(* found the characters in it, and does not know of it after a failure.    *)
Minimal ==
  [steps |-> <<"copy">> \o Texture.steps \o <<"search">>,
   ok    |-> [gl |-> Texture.ok.gl, search |-> {"copy"}],
   bad   |-> Texture.bad]

(* snd_load from the stream on: no path deletes the buffer.                *)
Sounding ==
  [steps |-> <<"gl", "fill", "struct">>, ok |-> [fill |-> {"data"}],
   bad   |-> [gl |-> {{"data"}}, fill |-> {{"data"}}, struct |-> {{}}]]

Plan ==
  [png |-> Png, jpg |-> Jpeg, jpeg |-> Jpeg, wav |-> Wav, ogg |-> Ogg, flac |-> Flac,
   texture |-> Texture, minimal |-> Minimal, sound |-> Sounding]

-----------------------------------------------------------------------------

Step == Plan[job].steps[step]
Takes == {Step} \cap Resource

(* What is given back, by whom and in which step.                          *)
GivenBack(by, at_, set) ==
  twice' = twice \cup {<<by, at_, r>>: r \in set \ held}
LostBy(set) == lost' = lost \cup {<<job, Step, r>>: r \in set}

(* image_load and snd_load_internal try these, in this order.              *)
Tried(x) == IF x \in Usable THEN <<x>> ELSE <<>>
Extensions(c) ==
  IF c = "sound" THEN Tried("wav") \o Tried("ogg") \o Tried("flac")
  ELSE Tried("png") \o Tried("jpg") \o Tried("jpeg")

StartLoad(c) ==
  /\ caller = NONE /\ outcome # "aborted"
  /\ caller' = c /\ tries' = Extensions(c) /\ job' = NONE /\ step' = 1
  /\ held' = {} /\ stale' = FALSE /\ outcome' = "none"
  /\ UNCHANGED <<lost, twice>>

(* snd_load_internal clears the stream before each try, which may find     *)
(* that there is no such file.                                             *)
Try ==
  /\ caller # NONE /\ job = NONE /\ tries # <<>>
  /\ tries' = Tail(tries) /\ stale' = FALSE
  /\ \/ job' = Head(tries) /\ step' = 1 /\ held' = {"file"}
     \/ UNCHANGED <<job, step, held>>
  /\ UNCHANGED <<caller, outcome, lost, twice>>

Ended(result) == caller' = NONE /\ job' = NONE /\ outcome' = result

(* The error path of snd_load, with data to free: sound.streaming is read, *)
(* which nobody has set, and then a pointer called that is NULL.           *)
EndedWithData == \E result \in {"failed", "aborted"}: Ended(result)

(* None of them could load it.  What the last decoder has freed, snd_load  *)
(* frees again.                                                            *)
TriedAll ==
  /\ caller # NONE /\ job = NONE /\ tries = <<>>
  /\ GivenBack(caller, "tried", IF stale THEN {"data"} ELSE {})
  /\ IF stale THEN EndedWithData ELSE Ended("failed")
  /\ UNCHANGED <<tries, step, held, stale, lost>>

(* A step succeeds; the last one of a decoder leaves the data to its       *)
(* caller, the last one of the caller a texture or a sound to game code.   *)
Succeed ==
  /\ job # NONE
  /\ LET ok == Plan[job].ok
         back == IF Step \in DOMAIN ok THEN ok[Step] ELSE {}
         left == (held \cup Takes) \ back
         last == step = Len(Plan[job].steps)
     IN  /\ GivenBack(job, Step, back)
         /\ held' = IF last /\ job # caller THEN left \cap {"data"} ELSE left
         /\ LostBy(left \ held')
         /\ step' = IF last THEN 1 ELSE step + 1
         /\ IF ~last THEN UNCHANGED <<caller, job, outcome>>
            ELSE IF job = caller THEN Ended("loaded")
            ELSE job' = caller /\ UNCHANGED <<caller, outcome>>
  /\ UNCHANGED <<tries, stale>>

(* A step fails; after a decoder, the next one is tried.                   *)
Failure ==
  /\ job # NONE /\ Step \in DOMAIN Plan[job].bad
  /\ \E back \in Plan[job].bad[Step]:
       /\ GivenBack(job, Step, back)
       /\ LostBy(held \ back)
  /\ held' = {} /\ step' = 1
  /\ stale' = (job \in Stream /\ "data" \in held)
  /\ IF job # caller THEN job' = NONE /\ UNCHANGED <<caller, outcome>>
     ELSE IF caller = "sound" /\ "data" \in held THEN EndedWithData
     ELSE Ended("failed")
  /\ UNCHANGED tries

DecodersAborted == outcome = "aborted" /\ UNCHANGED decodersVars

DecodersNext ==
  \/ \E c \in {"texture", "minimal", "sound"}: StartLoad(c)
  \/ Try
  \/ TriedAll
  \/ Succeed
  \/ Failure
  \/ DecodersAborted

DecodersSpec == DecodersInit /\ [][DecodersNext]_decodersVars

-----------------------------------------------------------------------------
(* Properties.                                                             *)

DecodersType ==
  /\ caller \in {"texture", "minimal", "sound", NONE}
  /\ tries \in Seq(Image \cup Stream) /\ job \in DOMAIN Plan \cup {NONE}
  /\ job # NONE => step \in DOMAIN Plan[job].steps
  /\ held \subseteq Resource /\ stale \in BOOLEAN
  /\ outcome \in {"none", "loaded", "failed", "aborted"}
  /\ \A x \in lost \cup twice: x[3] \in Resource

(* Whichever step of a load fails, everything is given back once, but for  *)
(* the paths listed here: a flac that is loaded keeps its file open, an    *)
(* image that breaks off may keep its rows, OpenAL's buffers stay, and     *)
(* two error paths free the data a second time.  A load that succeeds      *)
(* leaves what the texture or the sound consists of and nothing else.      *)
LoadsGiveBack ==
  /\ DecodersType
  /\ lost \subseteq
       {<<"flac", "decoder", "file">>, <<"flac", "rows", "file">>, <<"ogg", "open", "file">>,
        <<"sound", "fill", "gl">>, <<"sound", "struct", "gl">>,
        <<"minimal", "gl", "copy">>, <<"minimal", "struct", "copy">>}
       \cup Image \X {"rows"} \X {"data"}
  /\ twice \subseteq
       {<<"texture", "struct", "data">>, <<"minimal", "struct", "data">>, <<"sound", "tried", "data">>}
  /\ outcome = "loaded" => held = {"gl", "struct"}

=============================================================================
