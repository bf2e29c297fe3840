# erszebet: specifications, model checking and proofs

erszebet is a 2D game engine in C. Game code is Lua; drawing is OpenGL, sound is
OpenAL, physics is Chipmunk. This directory holds TLA+ modules that model the
engine's own logic, the TLC configurations that check them on small instances,
and TLAPS proofs of what matters most for every size. Paths below are relative
to the repository; `src/src/` is the engine, `src/3rd/` the libraries it
vendors. The repository has no tests. Its documentation is `README`, `TODO` and
the comments in the code, so the code is what the modules are translated from.

    tlc -workers 2 -config MCEntity_attach.cfg MCEntity     check one instance
    tlapm EntityProofs.tla                                  check the proofs

## 1. The system

There is one thread. `main` (`src/src/sys/sys_unix.c`) calls `engine_start`,
then `engine_frame` until something sets the quit flag, then `engine_stop`.
A frame runs the modules in this order: clock, sound, renderer, window events,
game (physics, then entities), command buffer. What makes the engine hard to
test is therefore not parallelism but four other things.

* **Re-entrancy.** The engine calls Lua from the middle of its own loops (a
  think from the walk of the entity list, a touch function from a Chipmunk step,
  a command from the scan of the command buffer), and Lua may call back
  whatever function of the engine it likes.
* **Memory by hand.** Entities, sprites, textures, bodies and shapes point to
  each other and to memory that others own; a reference count, a deferred free
  or a NULL in a Lua field is all that keeps a pointer from outliving its target.
* **The asynchronous signal handler.** It runs `engine_stop` on top of whatever
  it interrupted, and an alarm may enter it again.
* **The file that outlives the process.** `config.cfg` is read on the way up and
  written on the way down, by two modules, one after the other.

### Components

For each: the state it keeps; its operations; who it talks to; what is hard;
what makes it correct. "Modelled in" names the module, or the planned one.

**Entity list** (`game/g_entity.c`; Entity). State: `entities`, a linked list
sorted by z; `remove_entities`, the entities removed and not yet freed; per
entity the Lua table it belongs to, what it is attached to, how many are attached
to it, its timers. Operations: spawn, remove, set fields (origin, nextthink,
attach...), the walk of `g_entity_frame`, shutdown. Lua holds an entity by a
table whose `__ref` is the pointer. Hard: a think may remove, spawn, attach or
sort while the walk holds a saved `next` pointer. Correct: a table's `__ref`
never dangles; the two lists hold each struct once; the walk reads no freed
struct; the list is sorted and the sort stable; a walk ends and visits all.

**Command buffer** (`cmdbuf.c`; CmdText, CmdQueue, CmdBuf). State: one block of
text, its length, the source of the current command. Operations: `cmdbuf_add`,
`cmdbuf_add_file`, the scan in `cmdbuf_frame`. Key events, the command line,
config files and Lua add to it; the scan calls commands, which add to it, or (Lua
`execute`) scan it again. Hard: text appended to a block being scanned, a file
that executes itself, the last bytes of the block, quotes that are not closed.
Correct: it is a queue of commands; each scan ends, inside the block.

**Life of the process, saved settings** (`engine.c`, `sys/sys_unix.c`, `cvar.c`,
`input/keyboard.c`; Engine). State: which modules are up, console variables and
their flags, key binds, the two stop flags, `config.cfg`. Operations: start, stop,
signal, alarm, bind, set, seta, registering a variable. Hard: twelve modules
go up in one order and down in another; any of six may fail; a signal can arrive
between any two steps; a line may be too long for its buffer, a write or an open may fail, and a value may hold what
ends a value. Correct: a module is up only while what it calls is; a stop writes what it owes, but for the lines
that fail, and the next start reads back what no damage reaches; the process ends.

**Sprite and texture caches** (`render/r_sprite.c`, `r_texture.c`,
`game/g_render.c`, `g_render_sprite.c`; Sprites). State: two lists with reference
counts; per entity the plugged renderer, a sprite, a name. Operations: load,
unload, plug in and out, set the name, remove. Hard: a load that fails at some
frame, field callbacks that reload, names that point into a sprite just freed.
Correct: counts are exact; what is drawn is loaded; nothing is left.

**Physics** (`game/g_physics.c`, `g_physics_{circle,polygon,segment}.c`, Chipmunk's `cpSpace.c`, `cpSpaceHash.c`, `cpArbiter.c`, `cpBody.c`;
Physics, SpaceHash, Contacts, Motion, Shapes). State: a space of bodies and two hashes
of shapes (Chipmunk), per entity its body data. Operations: assign `body`, free,
the steps of a frame, the collision callback and its two touch functions. Hard: Lua
runs inside a step that has the space locked; data read before a touch is used
after it. Correct: the space refers to allocated memory, each shape in its hash;
what a step holds on to stays; a removed entity is told of no touch; every pair of shapes that share a cell is looked at
once in a step; contacts are those of this step, in their buffer; the fields of an entity and its body agree,
and the body has the shapes that its table describes.

**Game glue** (`game/g_main.c`, `g_field.c`; LuaStack, Fields). State: the Lua state and its
stack, of which the engine's own frame outlives every call. Operations: `g_lua_call`
with a handler for errors, `g_call_func` without, and the engine's calls of main.lua,
think, touch, mouse functions and commands. Hard: each caller balances the stack
itself, on every error path. Correct: the function called is the one fetched, and
what is read as its result is its result. The table-driven fields of entities (Fields) live in
`__data` or in a structure of the renderer, and move when the renderer changes. Correct: a field
reads what it was given last.

**Other renderers of an entity** (`game/g_render_*.c`). fade reckons an alpha from the clock and forces a think
(Fade, Entity); text and text2 own references to fonts (Fonts), sound owns a source
(Sounds); line and circle hold a texture each and keep geometry computed from their fields (Beams);
scissor sets a rectangle that clips all that is drawn after it (Drawing). Hard: setting the renderer runs
the callbacks of all its fields, and each of them may load, drop or redraw. Correct: a line is drawn
as its fields and its origin are now; a fade goes from where the entity was to where it was told, in the time it was told,
and makes its entity think once.

**Fonts** (`render/r_font_sdl.c`, `r_linefont.c`; Fonts). State: two more caches with
counts; a line font owns the sprite that has its characters. Operations: load,
unload, draw into a texture. Hard: names that point into a font just freed,
callbacks of two fields that each load or unload, loads that fail. Correct: a font
lives as long as something points to it; a texture belongs to one entity. The picture of a line font is
searched for its characters when its sprite is loaded (Glyphs), unless the sprite or its texture is there already:
the caches do not know of the search. Correct: a character is shown as it stands in the picture.

**Sound** (`sound/snd*.c`, `game/g_render_sound.c`; Sounds). State: the list of
sounds, OpenAL buffers and sources. Operations: load, create and delete a source,
play, loop. Correct: a source belongs to one entity, plays its sound and loops
when it should.

**Decoders** (`image/image.c`, `image_png.c`, `image_jpeg.c`, `sound/snd_wav.c`,
`snd_ogg.c`, `snd_flac.c`, and their callers in `r_texture.c` and `snd.c`; Decoders).
State: an open file, a library's object, the data, a texture or an OpenAL buffer. Operations:
load, trying one extension after the other. Hard: each has its own error path, one of them with
`longjmp`. Correct: a load that fails leaves nothing, one that succeeds only what was asked for.

**Pictures** (`gl/gl_texture.c`, `image/image.c`; Texels). A picture is put into a texture whose sides
OpenGL takes, in a corner of it or scaled to all of it, row by row in fixed point. Hard: what repeats the last row is
written to one place, and the fixed point ends at 32768. Correct: the part of the texture that is
taken for the picture shows it and nothing else, and only rows that would repeat the last one are left.

**Sorted lists** (SGLIB's macros, `src/3rd/sglib/sglib.h`; Lists). State: next pointers, a comparator that for the
entities never says "equal". Operations: add, find, delete, and the merge sort. Hard: pointers to pointers, and runs that
do not come out even. Correct: nothing is lost, equals keep their places, the first of a name is found.

**Memory pools** (`mem.c`; Heap, Pools). State: a list of pools, per pool a doubly
linked list of its blocks, a sum of sizes and a limit; a sentinel in front of each
block. Operations: make and free a pool, allocate and free a block. Every module
above allocates from a pool of its own. Hard: a block freed twice, and the memory
in between handed out again. Correct: the lists hold what is allocated, each block
in its pool, and the limit holds.

**Tables of commands and variables** (`cmd.c`, `cvar.c`; Tables). State: per first
letter a sorted list (25 of them; `z` would be the 26th), per variable a string, a
float, limits, a callback. Operations: register, find, set, and the modules' cvar_get,
which may come after a file has set the variable. Correct: what was registered is
found; what was set early is kept and obeys limits it did not know of.

**Files** (`fs/fs.c`, `fs_helpers.c`; Files). State: two or four search paths, of
which only the first is written to; a pool of open files; descriptors. Operations:
open in three modes, write, close. Hard: an open that fails half-way goes on to the
next path. Correct: what the engine has saved is what it reads. The steps that write
`config.cfg` are in Engine, the reading limit in CmdBuf.

**Input and window** (`input/`, `video/video_sdl.c`; Input, Window). State: SDL's queue, who
has the focus, the key bindings. Operations: key and focus events, the poll of a frame,
binding. Its commands go to the command buffer. Hard: keys held while the focus or the
binding changes, keys the engine keeps to itself. Correct: what was pressed is
released. The window has a size chosen from saved settings and a list of modes, and a grab; the
pointer is the engine's own. Correct: the engine knows whether the pointer is confined, and it is in the
window.

**Strings** (`misc.c`, `strlcpy.c`, `emath.c`; Tokens). The tokenizer that takes a command apart, with
quotes, comments and one buffer for all words. State: the tokens of the last command. Correct: the words of
a line are those that somebody wrote, or none where the code drops the line; nothing is written behind the buffer. What it does to saved values
with a quote is in Engine.

**Renderer frame** (`render/r_main.c`, `gl/gl_helpers.c`, `gl/gl_texture.c`; Drawing). State: copies of
OpenGL's bound texture and colour, kept to leave out calls that change nothing. Hard: OpenGL changes
its state on its own when a texture is deleted, and hands out its name again. Correct: what a
frame shows of an entity is what game code made it, whatever was drawn before.

**Not modelled**: extension lookup and the drawing of primitives (`gl/` but for its copies of state and
its textures), the decoders of other systems (`image_cg.c`, `image_pvrtc.c`), printing and arguments (`sys/sys.c`, `sys_arg.c`):
straight-line code around libraries, whose failures are outcomes in the models that call them. The iPhone
port: a second main loop that the platform modelled here never compiles. Of Chipmunk,
what a space remembers between its steps is modelled; its geometry, its solver and the joints, which the
engine never makes, are not. Lua and LuaJIT are vendored, and modelled only by what the engine
relies on; so is what the engine uses of SGLIB but for its sorted lists.

## 2. The modules

Each module names the code it is translated from in its first comment; each
action is one operation or one step between two points where something else may
happen. A definition whose comment begins with "Fault:" is a plausible mistake in
the definition after it, used by nothing: put in its place, it breaks a
property. They show that the properties can tell the code from a wrong one.

**Entity.** `Ent` are addresses, so a freed one may be allocated again. `entities`
and `removed` are the two lists as sequences, `heap` says which one a struct is in,
`handle[t]` is `t.__ref`, `ref[e]` is `lua_ref`. Game code is the disjunction
`LuaStep`, enabled when no call is under way and inside a think. The walk is
`FrameStart` (free the remove list, read the head), `Pass`, `ThinkCall`,
`ThinkReturn`, `FrameEnd`; `cur` and `nxt` are SGLIB's iterator, which saves the
next pointer before the body runs. `nxt` of a struct that was moved to the remove
list is a pointer into that list, as in the code. `"panic"` is the Lua panic when a
think is dispatched to an entity without `__data`. With `Careful` game code
detaches an entity's attachers before it removes it and removes from a think only
the thinking entity; what then holds is stated apart.
Left out: the plain fields, drawing, and allocations that fail.

**CmdText, CmdQueue, CmdBuf.** A cell of the buffer is a word or a character with a
meaning (newline, semicolon, quote, NUL, source byte, invalid). CmdText says
which commands a text contains; CmdQueue is the abstract specification, a queue to
which a text is appended and from which commands run one by one, `exec` appending
some prefix of a file; CmdBuf is the code: `Add` is `cmdbuf_add` with the
overflow test, `frames` is the stack of scans under way, `Step` takes one
command (execute, skip an empty one, run the file, call Lua). The refinement maps
`queue` to `Pending`: the commands in the part of the block not yet scanned.

**Engine.** `BootOrder` and `StopOrder` are the orders of `engine_start` and
`engine_stop`; `up` are the `*_i` flags. `InitModule` registers the
module's variables, `ExecuteLine`, `LoadDone` and `LoadFails` read `config.cfg`, `SaveOpen`,
`SaveLine`, `WriteFails`, `SaveClose` and `SaveFails` write it. `Signal` runs the handler on top of
the thread, `Exit2` is the second entry, `Hang` a handler that waits for a lock of
the thread it interrupted, `Kill` a crash, `Restart` the next process on the same
file. `disk` is the file as a sequence of pieces. A piece is the line that was to be written, its value, and whether it is
whole: `fs_printf` has 512 bytes, so a bind of a `Long` value loses its quote and its newline (`Printed`), and a write that
fails leaves some of a line or none. The piece behind one that is not whole is glued to it. Reading, a piece that is `Clear` is
heard as it was written, unless `in_quotes` stands wrong and the value has a semicolon (`Split`): then the command is dropped
and what is behind the semicolon is executed (`Rest`, a constant: what those commands set). From a piece that is
not clear any of the values a damaged text can give (`Scraps`, or the `Stump` of a torn value) may come, or
nothing, and `in_quotes` is anything afterwards. `ReadMax` is the room of the command buffer; `Beyond` are the lines of `z`, which
neither loop reaches. Two history variables carry the property: `promise`, what the last stop owed, and `lost`, the lines
it or the reading has failed to handle: those whose own write failed, those of a module that could not open the file, and
all of them where a stop is cut short before the variables are saved or writes over a file it has not read.

**Sprites.** `refs` and `sref` are the two counts, 0 meaning not listed. An operation
of game code is several steps, one per reference taken or dropped (`LoadFrame`,
`DropFrame`, `Unwind`), so a load that fails half-way is seen half-way; `then`
and `todo` say what the code does after them. `owner` is the memory an
entity's `r->name` points into; a read of freed memory yields the old text or
`JUNK`.

**Physics.** `pd`, `owner`, `bearer` are the pointers between entities, data and
shapes; `bodies`, `active`, `statics` the space. A step takes any pairs of shapes
that may collide, in any order (`StepBegin`, `Collide`), and calls the two touch
functions (`TouchA`, `TouchB`), inside which `Lua` may do anything. What the step
keeps for later is `pairs`, `arbiters`, `pair`, `apd` and `bpd`. A space changed
under a step is `"aborted"`: Chipmunk asserts, and no build flag removes asserts.

**Drawing.** `bound` and `ink` are OpenGL's, `cachedTex` and `cachedInk` the engine's copies of them;
`gltex` is the texture an entity owns, `pixels` what is in each. `driver` says whether
`glGenTextures` hands out the name of a deleted texture again. A frame is `FrameBegins`, then
one of `Skip`, `DrawQuad`, `DrawScissor` for each entity in any order, and `FrameEnds`; between frames game
code changes renderers, colours and texts. `quad` is what an entity left on the screen: which picture, in
which colour, clipped by whom. `mixed` and `spilt` are history: a new texture got the name the
engine took for bound; a frame ended clipped. Left out: geometry, filters.

**Beams.** One entity that is a line or a circle, and other holders of the textures. `strip` is
`r->texture`, `tref` the reference counts, `shape` what the vertices were last computed from: the callbacks of the
fields compute them, `DrawBeam` does so again for a line that has moved. `seen` is what was drawn last; `late`
and `reckoned` are history for the two cases where the code draws something old. Lengths are 0 or
1, two different places have a distance of 1.

**Fields.** `Table` has the fields of each renderer and the common ones, as the C tables do; `rdata` is the
renderer's structure, `udata` is `__data`. `AssignData` is an assignment to a field of the renderer that is set,
`AssignUnset` any other; `ChangeRender` pushes the old fields into `__data` and pops the new ones from there, in the
order of the tables. `wish` is history: what each scalar was last given. Strings and the callbacks are in the
renderers' modules.

**Window.** `extent`, `full`, `grab`, `focus`, `cursor` are the code's; `grabSDL` is what SDL does. `VideoInit`
chooses the size from the settings and a list of modes; the keys that toggle full screen and the
grab, focus, resizing and motion follow.

**SpaceHash.** One of a space's two hashes, `moving` says which. `handle` is the set of handles, `retain`
their counts, `table` the cells, `stamped` the handles that carry the hash's stamp of now (they are what a query
has seen). `StepBegins`, `Visit`, `LookAt`, `SkipBin`, `CallFunc`, `FuncReturns`, `CellDone`, `VisitDone` are
`cpSpaceHashQueryRehash` taken apart around the function it calls, in which game code may
ask for a point (`PointQuery`) or move a static entity (`RehashInQuery`). The query of the static hash, `Seek`, is
the same walk without a handle of its own. `met` and `again` are history: the pairs handed on.

**Contacts.** `arb` is `contactSet`, `ring` the buffers of contacts from tail to head, `bnum` and `bage` how full and how old each is, `bwrit` (history)
the pair that last wrote each place. `Meet` is `queryFunc`: contacts pushed, an arbiter found or made, the begin function called
if it is new. The pairs in `Many` may touch in more places than an arbiter has; then one contact more is written than is counted
(`Limited`), over the next place or, at the end of a buffer, behind it: the model ends there (`"overrun"`).
`StepEnds` has the filter that drops arbiters not used in this step (`Dropped`), `Expired` the test whether a buffer may be used again.
A stamp is kept as the age it has. Forces are left out.

**Motion.** One entity and its body in one dimension: `org`, `vel`, `mass`, `elas` are the fields, `bp`, `bv`,
`bm`, `se` the body and its shape, `hashed` where the static hash has it. Fields that are treated alike
are one. Game code assigns between frames and inside touches; `StepMoves` and `StepSpeeds`
are the two halves of `cpSpaceStep`, `UpdateEnt` the copy back at the end of the steps. The
velocity that the solver adds to part shapes that overlap is left out: it goes with the place.
`unsaid`, `drifted`, `light` are history.

**Shapes.** `AssignTable` is an assignment of `body`; one entry of the table after the other is fetched and becomes a shape or does
not (`FetchEntry` to `NoCopy`). `pushed` is what stands in the frame that Lua has made for `__newindex`, `copies` the two
allocations of a polygon, `bad` the polygons that are concave or wound the wrong way: at the first of them that is copied Chipmunk's
assertion ends the program (`Invalid`, `"aborted"`). `AssignTable` takes any table, a set of shapes of which Physics assumes; without
memory for the body's data it writes through NULL (`"crashed"`).

**Fade.** `alpha`, `alphaEnd` and `length` are fields, each with its callback (`AssignAlphaEnd`, `AssignLength`); `EndFade` and `GoOn` are
the two ways of a draw, in which the second reading of the clock may be later than the first. `SetClock` takes any
value: `sys_get_time` adds the difference to the last reading even when it is negative. `thinks` and
`steady` are history.

**Fonts.** `ref` and `key` are the two lists, told apart by the kind of key. Setting
a field runs one callback, setting `ent.render` the callbacks of all fields in the
order of the table: `todo` is what is left of them, `who` the entity. A field has one
value, wherever the code keeps it (the render data or `__data`); `at` says whose memory
a name points to: the argument of the call (`"lua"`), which may be collected when the call
returns, or the font (`"own"`), which the callback may just have freed. A read of memory
that is gone yields any name or `JUNK`. `game` is what game code does: the renderers
it uses, and whether it is tidy, that is, gives a line font its text first and never takes it
away. Without that, references are never dropped, and `MaxLost` bounds them.

**Sounds.** No callback calls another, so each operation is one step. `loaded` is the
memory, `sounds` the list that `snd_unload` searches, `Linked` what `snd_load` makes of the
list: nothing.

**Decoders.** A job is a decoder or the caller that takes its data on; `Plan` has, for each, its
steps, what a step gives back when it succeeds and what the error path gives back when it
fails. `Succeed` and `Failure` take any path through them, `Try` is the next extension. `held` is
what has been taken; `lost` and `twice` are history: what nobody can give back any more, and what was given
back when it was not held, each with the job and the step.

**LuaStack.** `stack` is the engine's frame and one for each call of `execute` under way; a frame
has a top and cells, of which those above the top keep what they held, and one below the base, which is
somebody else's memory. `Begin` is a site's part until `lua_pcall` (and the error at once, if
what stands there is no function), `Finish` the part after it; the two are apart because Lua
may come back in between (`LuaExecute`). `missed` is history: the sites that called something
else than their function. `Underflow` is where the model ends: two below the base.

**Glyphs.** One sprite of one line, entities (`users`) and line fonts (`fonts`) that hold it, and whether somebody else
holds its texture (`elsewhere`). `filled` are the columns of the picture that are not empty, `coords` what the search has
found, `col`, `frame` and `open` where it is. `shown` is what was drawn last; `first` is history: who has loaded the sprite. Left
out: heights, and a sprite of one frame.

**Texels.** `CreateTexture` takes a size and resizes, `ScaleRow` is one turn of the loop over the rows of the scaled picture; `row1`
and `row2` are the two rows of the picture that the code keeps, by their numbers. `made` counts the turns and `out` those that
went on to the next place: the turns that repeat the picture's last row do not, and write one place over again, so `rows` may
end short of the texture. Where `F` is beyond `IntMax` the fixed point overflows (`RowsOverflow`, `"wild"`). Columns go the same way, and of
them only the reads that leave the picture are modelled (`ColumnsOverflow`). Memory that cannot be had is left out here: it is in Decoders.

**Lists.** A node is its number in the list as it was, one more is the node to be added or looked for; `first` and
`link` are the pointers, `spot` the macros' pointer to a pointer. One operation runs on a list, step by step: a step
of a search, or of a merge. `tie` is what the comparator says of equals: less for entities, equal for what has a
name. Entity uses the sort as one step that is known to be stable, Sprites, Fonts, Tables and Sounds that a search finds
what is there: Lists is why they may.

**Tokens.** `LineEnds`, `ParseFails` and `TakeToken` are one turn of the loop in `string_tokenize`, `parse_token` included.
`Lines` is the reference: words, bare or in quotes, and the text that writes them, with nothing or a carriage return behind them
(`Trailing`), or with what spoils the line: a comment, a quote that is not closed, a word too long (`Spoiling`). A comment ends at a carriage
return and not at the end of the line, so words may follow it. Every text of a few
characters is an initial state, and so is every text of a line.

**Heap, Pools.** Heap is the abstract specification: a block belongs to one pool until
it is freed, a pool has a limit and goes when it is empty. Pools is the code: `pools`,
`pnext`, `pprev` the list of pools, `allocs`, `next`, `prev` the lists of blocks,
`sen1`, `owner`, `length` the header in front of a block, which stays readable after a
free or does not. `MemFree` is enabled for any block whose header says it is allocated,
so also for one freed before; what the code does then is search the pool's list.
`FreePool`, `FreeFirst`, `UnlinkPool` are the loop of `mem_free_pool`. The refinement
maps `held` to the pool whose list a block is in. Left out: blocks written past their
end, freeing twice when the pool is gone, the statistics.

**Tables.** A name is a letter and a number that stands for the rest in the order of
`strcmp`; `cmds` and `cvars` are the lists. `asked` is history: the names given
to a table that had room; so is `given`, the value last set by a command, or by whoever made the variable. `Gets` is `cvar_get`: a variable
that is there keeps its string (`Kept`). `SndInit` is the module whose variable, `s_volume`, has limits and a
callback, so the one at which order matters: a file may set it before. `m_sens`, `m_accel` and `gl_picmip` have limits and
no callback, and are not followed.

**Files.** `disk` is what each name is in each path, `try` the `fs_open` under way, one
step per path (`SkipPath`, `LeavesOpen`, `Opens`, `OpenFails`). `put` is history: what the
engine last put into a name, the empty file that an opening mode makes included.

**Input.** `events` is SDL's queue, `down` the keys SDL knows to be down, `heard` the
texts whose key-down command has run and whose key-up has not. `excused` is history:
those of which the code loses the key-up, because the focus was lost, the key was bound
anew, or the command buffer was full when it came (`Overflows`). `frame` separates the poll, which adds to the command buffer, from the
commands, which may bind.

The MC modules give the constants their values. Modules do not share variables;
they meet in the same code seen from two sides, and agree on it: Entity and
Physics and Sprites all have an entity listed, removed, freed a frame later;
CmdBuf leaves `set` and the binds to Engine, and Engine leaves the buffer to CmdBuf.
Fonts takes from Sprites that a sprite loads or does not; Tables and Files say for all
names and paths what Engine assumes of a few. Shared holds the constants that several
modules have. MCCmdBuf gives the command buffer its texts and files, MCEngine the engine its one key. MCGraphics (Sprites, Drawing, Beams, Fields, Glyphs, Texels, Fade), MCPhysics (Physics, SpaceHash, Contacts, Motion, Shapes),
MCResources (Fonts, Sounds, Decoders) and MCConsole (CmdBuf, Pools, Files, Tables, Lists, Tokens, Input, LuaStack, Window) check modules that share no variable side by side in one run: the initial state
chooses the one that moves, so their states add up and are not multiplied. They touch where one takes the
outcomes of the other: Physics lets any pairs of shapes collide in any order, and SpaceHash and Contacts say which
pairs and how often; Drawing takes that a text makes a picture or does not, which Fonts decides; Beams takes that
a texture loads or does not, as Sprites does; Physics takes any set of shapes, and Shapes says which a table gives.

## 3. What is checked

| run | instance | shows |
|---|---|---|
| entity_attach | 3 entities, 3 tables, one level, counts down to -1, any game code | `HandlesCurrent`, `ListsPartitionHeap`, `CountNeverExceedsAttachers`, `CursorAllocated` |
| entity_careful | 3 entities, 3 tables, two levels, careful game code | `Sorted`, `OnlyListedReached` (`AttachmentsListed` and `CursorListed`), `WalkVisitsAll` |
| entity_time | 2 entities, 2 tables, 2 levels, 4 times, thinks that set timers, levels, remove, spawn and force thinks | `WalkEnds` under fairness of the walk |
| entity_removed | 2 entities, 2 tables, any game code | violation of `NoThinkWithoutHandlers` |
| cmdbuf_queue | 12 cells, a file that executes itself, 5 texts | CmdBuf implements CmdQueue; `BufferDrains` |
| console | CmdBuf: 9 cells, two nested scans, open quotes, empty commands; Pools: 2 pools, 3 blocks, 2 sizes, no limit or 3; Files: 1 name, 2 or 4 paths, 2 open files, 3 descriptors; Tables: 3 names with one letter, room for 3; Input: the 2 keys that the engine uses itself, 2 texts, 3 events in a frame; LuaStack: 3 frames, 2 values left over; Lists: up to 6 nodes, 3 ranks; Tokens: any text up to 5 characters, any line of 2 words, 4 short words, room for 3, each with nothing, a comment, an open quote or a word too long behind it; Window: lengths 0 to 2, a driver with two modes or with any | `ScansSafe`, `IsHeap` (Pools implements Heap), `ReadsSaved`, `TokensRight`, `TablesKept` (`FindsAll`, `SettingsHeld`, `VolumeHeard`), `ListKept`, `KeysReleased`, `CallsRight`, `PointerKept` |
| lua_stack | main.lua returns one value | violation of `NothingBelow` |
| engine | 1 key, 2 variables (`m_sens`, and `z_far`, which no loop reaches), 4 values: plain, with a quote, with a semicolon, too long; room to read 2 lines, a file of up to 3, 1 command in a process, 1 failing write in a stop | `NeedsUp`, `Written`, `RoundTrip`, `FailedStartKeeps`, `StopEnds` under fairness |
| graphics | Sprites: 2 entities, 3 slots, 2 names, 2 textures, sprites of 1 and 3 frames; Drawing: 2 entities, 3 texture names, 2 pictures, 2 colours, both kinds of driver; Beams: 2 textures, 1 other holder of each; Fields: the fields of line and scissor, which share a name, and alpha; Glyphs: 6 columns, 2 or 3 frames; Texels: sides up to 10, textures of 4 to 8, the fixed point ends at 8; Fade: 3 times, 2 speeds, 2 alphas, lengths 0 and 2 | `CountsExact`, `ShowsWanted`, `FrameShowsEntities`, `BeamKept`, `FadeKept`, `GivenKept` (`FieldsKept`, `GlyphsShown` and `TextureShowsPicture`) |
| physics_step | Physics: 3 entities, 2 bodies, 3 shapes, 2 contacts, 2 steps; SpaceHash: 3 shapes, 3 handles, 2 cells, 3 positions of which two share a cell; Contacts: 2 pairs with a shape in common, one of which may have a contact too many, buffers of 2, 1 contact a pair, 3 buffers; Motion: speeds and places -1 to 1, 1 step, gravity; Shapes: tables of up to 3 entries, any of their polygons refused, with memory or without, room for one value more than a round needs | `NothingDangles` (`BodiesOwned` and what the space and a step refer to), `TouchListed`, `HandlesCounted`, `PairsMetOnce`, `ContactsKept`, `BodyAsSet`, `ShapesMade` |
| resources | Fonts: 2 entities, 3 addresses, 2 names, 1 size, 1 list of characters; Sounds: 2 entities, 3 sounds, 2 sources; Decoders: all six extensions | `FontsKept` (`FontsOwned` and `DrawsLoaded`), `SourcesOwned`, `LoadsGiveBack` |
| physics_locked | 2 of each | violation of `SetsUnlocked` |

**Why the bounds are enough.** Entity: a walk holds two pointers, an attachment
joins two entities; with three there is always one that is neither, and one
freed and allocated again while the others are held. Two levels
are what a sort can change. With four times a frame lies two beyond an entity's last think, so a think can rearm the
timer between the two, go behind another entity and be reached again by the same walk; frames at the first and the last time
are enough for that (`Frames`). CmdBuf: every
text fits once and some do not fit twice; the file fits in part; nine cells
are few enough that each of the last three is reached with each character in it.
Engine: the two modules that write share three lines, so that a line too long for its message stands in front of
another, a torn value in front of a listed one, and the third line is beyond what is read. One command in a
process is enough to give every line every value, for the number of starts is not bounded: states repeat, and so
do failing writes, one in each stop. Sprites: two sprites share a texture and one
names it twice, which is what counts can get wrong; a third slot lets a sprite
be loaded while two are held. Physics: three entities so that one is removed while
two collide; two contacts, so that a pair is asked about again; two steps, so that
one follows another in the same frame. Drawing: with three names one is bound, one is taken and one is free,
and two entities draw in both orders; every text and colour is one of two, the old one or the new. Beams: the entity's
texture and another, each held by somebody else or not. Fields: two renderers share one name with different
types, one has a vector and its component, and one field is common. Window: a side is 0, smaller or larger.
SpaceHash: three shapes, of which one may be gone and its handle reused while a cell still holds it; two positions of one
shape may share a cell or not. Contacts: a buffer holds the contacts of both pairs or not, the one too many lies in it or behind it, and a third buffer is
there when two are still young; no contact is older than two steps. Motion: what would be further or faster stays at
the bound; one step and one touch in a frame, and frames without.
Shapes: a polygon stands before, behind and between the other kinds, and the room ends behind the second polygon. Fade: with
three times and two speeds a fade is drawn at its start, half-way, at its end and late, and the clock is set back. Fonts: two entities share a font or hold one
each, while the third address is free for the next load; a second size or list of
characters would be one more key, as a second name is. Game code that uses both
texts is tidy and game code that is not uses line fonts only, or there are too many states; the two
texts meet only in the list of keys. Sounds: every entity holds a sound and one that
leaked is in the way; with two sources there may be none left. Pools: three blocks make a first, a middle and a
last one, two of them fill a pool with a limit, and two pools leave a freed block for
the other to hand out. Files: four paths are all there are, two files exhaust the pool
while a descriptor is free, and a file can be open for reading while it is written. Tables:
three names with one letter are inserted at both ends and between, and a table that is full
holds them all or leaves one out; letters do not meet. Input: key-down, ALT or focus, key-up fit in one frame and
may be spread over several; a third text would be one more of the same. LuaStack: with two values left
over a call stands above none, one or two of them, which is what its indices can confuse. Lists: six nodes make runs of one, two and four of which the
last is short, full or missing, and three ranks leave equals on both sides of others. Glyphs: every picture of six columns, with no
to three characters, touching either edge; fewer, as many and more than the sprite has frames. Tokens: a buffer of five holds two words with their NULs or not, and three only if one is empty; three words are all there is
room for, and four are more. Texels: sides that
are powers of two or are not, below the smallest texture, between and above the largest; a picture of one or two rows is
scaled to four, of which two or more repeat the last one; the largest sides overflow the fixed point (`IntMax` is less than the code's, so that they are few). Decoders has
no bound. Named bounds (`MaxDrift`, `MaxDepth`, `MaxShapes`, `MaxLost`, `MaxFrames`, `MaxLeft`, `MaxLen`, `MaxText`, `MaxGlyphs`, `MaxSide`, `MaxTable`, `MaxClock`, `MaxAlpha`, `FileMax`, `MaxChanges`, in Engine `MaxLost`, and the finite sets) only cut off more of the same; the theorems of
section 4 hold for any value of theirs.

**Deadlock** is checked in every run: no state of the models is stuck. The panic,
the shutdown and the abort stutter explicitly (`Stopped`).

**Fairness.** Entity: `WalkFairness`, weak fairness of the steps of the walk. They are
plain C code, and a think is assumed to return; nothing is assumed of game code
outside. Thinks may rearm any timer, force thinks and think several times in one walk. The property is about a game that does not set `lastthink` back
(`Rewind` FALSE); with it a think may rearm itself for ever. CmdBuf: `FairSpec` has
the frame called again and again (`engine_frame` does, in an endless loop) and a scan
go on; nothing makes anybody add text. Engine: `Fairness` has the main
thread run as long as no signal has stopped it, and the system deliver the alarm
(`Exit2`). It does not have a shutdown inside the handler go on: that may wait for
ever for a lock that the interrupted thread holds, and `StopEnds` holds nevertheless,
by the alarm alone.

## 4. What is proved

For every value of the constants that satisfies the modules' assumptions. No
theorem rests on an unproved lemma.

**EntityProofs.** `TypeCorrect`, `ListsCorrect`, `HandlesSafe`, `CursorSafe`, from one inductive invariant, the conjunction of the
properties. None is inductive alone: that a walk's pointers are in a list needs
the lists to hold all that is allocated, that removal finds its entity in the
list needs the table's handle to name a listed one, and that the handle is
cleared needs `lua_ref` to lead back to the only table that has it. `DrawOrder` and
`OrderKept` follow with lemmas on inserting, deleting and stable reordering: for
any list, and for a sort that is only known to be stable and to sort.

`CountsCovered`: a count above zero has attachers behind it. The invariant also needs that a struct off the
list has a count of zero. `CareInductive`, `CareReachesListed` and
`CareVisitsAll` are about careful game code (`ASSUME Careful`, the constant that leaves such code
only the steps that `Entity` describes): attachments and the walk's saved place are
listed, the saved place is not the entity that thinks, and what is still to be visited is
ahead of it in the list (`VisitInv`).

**CmdBufProofs.** `ScanStaysInside`, `ScanAlwaysStops` (which is `ScansSafe`) for every
size from 3 up, any texts, any file, any depth of nested scans (`MaxDepth` is any
number). The invariant is their conjunction: a scan stops at the NUL in
the last cell, and it does not take that cell for the end of an empty command
because no source byte stands in the last two.
`BufferIsQueue`: `QueueSpec`, that CmdBuf implements CmdQueue, step by step. It assumes (`QueueAssumption`, which the
run `queue` gives) what a queue needs: no handler calls `execute`, which scans the buffer again from its
start, and texts close their quotes, for `cmdbuf_frame` keeps `in_quotes` from one text to the next. What a text says
is a function read cell by cell; lemmas say that a text cut between two commands says what its parts say
(`ReadsOn`), that what `cmdbuf_add` writes says what it was given (`AddSays`), and that the reader follows the scan
(`ReadCommand`). The invariant (`QueueInv`): the text ends where `cmdbuf_len` says, source
bytes have text behind them, and unless the buffer is full nothing is left open at its end, so that what is
appended in the middle of a scan begins a command of its own. A full buffer is the one case in which the last command has no
end (`LastSays`); then nothing fits behind it either.

**EngineProofs.** `TypeCorrect`, `OrderSafe`, `StopWrites`, `SettingsSurvive`,
`FailedStartSafe`, for any keys, variables and values, any of them long, torn or listed, whatever the commands behind a semicolon set, any room of the
command buffer and any number of failing writes. The invariant says, for each place on the way up and down, which
modules are up (`UpAsOrdered`), for each line not `lost` whether the file has it by now
(`HalfWritten`), and how much of the file has come back (`HalfRead`, `ReadBack`):
the properties speak only of the ends, so a step in the middle needs to know how far
the two loops have got. That nothing a damaged line may be read as touches a line that
survives is two lemmas, on its own last piece and on all others (`LastIsClear`, `OthersSpareIt`); that without damage every line survives is a
third (`CleanSurvives`), so what the properties excuse is never more than the damage.

**GraphicsProofs.** Sprites: `TypeCorrect`, `RefsCounted`, `NamedOnce`, `Draws`, `NothingKept`,
`ShowsAsWanted`, for any entities, slots, names and files. To the two counts
the invariant adds what the loops are at (`Loop`), who is being operated on and
what that entity has (`Operation`), and that while a sprite is loaded no other has
its name (`NewName`). Counting rests on the library's theorems on cardinality, cited
in four lemmas: adding or removing one frame, or one entity, changes a count by one.
That an entity shows what it was told to needs a second invariant on top of it
(`Right`): a listed sprite has the frames of the file it is named for, one that is being filled has those of
the text that asked for it, and an operation under way still has the name it was
called with. Fade: `FadeKeeps`. The hard part is `Between`, which says where the alpha of an
undisturbed fade may be: its lemmas bound a product and a division for every clock,
speed and length. Beams: `BeamStaysCurrent`, from what a line and a circle hold (`LineHeld`, `CircleHeld`).
Drawing: `FramesAlwaysShow`. The invariant (`FrameInv`) says that the engine's copies of the
colour and of the bound texture are OpenGL's (`InkCopied`, `TexCopied`: but for a texture deleted while it was
bound, whose name a driver that hands out fresh names never gives to another), that a texture belongs to
one text and has its picture (`Textured`), and that the rectangle is that of the last scissor drawn (`Clipped`).
Texels: `TexturesShow`. A texture's side divides one in fixed point (`PowersDivide`), so no row is
computed from a rounded step; the two rows kept are always those of `oldy` (`RowsKept`); and once a turn has not gone on to
the next place, what is left of the texture has only the picture's last row to show (`AtLast`). Glyphs: `CharactersShow`. While the
search goes on, the frames in front of it have their characters and those behind it are empty (`Searching`), and as many
characters have ended as frames are filled (`Ended`, by cardinality). Fields: `FieldsStayKept`. The property speaks of the
renderer's structure; the invariant says as well what waits in `__data` for a renderer to come (`Waits`), and that what is there is
of its field's kind (`ValuesAre`). `DrawnAsGiven` is the three of them: `GivenKept`.

**PhysicsProofs.** Physics: `TypeCorrect`, `OwnersCorrect`, `StepSafe`, `TouchSafe`. The
invariant is `PhysicsType`, `BodiesOwned`, `StepReadsAllocated`, what the
space refers to said element by element (`SpaceByElement`, equivalent to
`SpaceHoldsAllocated` by lemma `ByElement`), that an entity's data leads back to it and
a freed entity has none (`DataLinked`), and that the pairs of a step are sets of
shapes. Freeing and making a body both go through `g_physics_mem_free`, and lemma
`AfterFree` says what is then left of memory and of the space; each action that calls
it rests on that lemma. `TouchSafe` is an action property: it needs the invariant
to know that the bodies a touch is about belong to somebody. Motion: `BodyStaysAsSet`, whose parts
`FieldsTell` and `StaticHashed` need that only a body without mass is ever moved to no number (`FiniteToo`).
Shapes: `ShapesAlwaysMade`. The property speaks of what is between two rounds of the loop; the invariant says how much
of the frame a round may still take (`Spare`, `Standing`), that only a polygon copies, and that no polygon Chipmunk refuses has been passed but for
want of memory (`BadRight`).

Contacts: `ContactsStayKept`. The invariant says who has an
arbiter and how old it is (`Remembered`, `Aged`), where its contacts are in which buffer
(`PlacedIn`), and what the step has still to solve and to tell (`Solved`, `Begun`); the ring
keeps a buffer as long as an arbiter of that age is left. A contact too many is written where the next pair's will be, never over one that is counted. SpaceHash: `HandlesStayCounted` and `PairsMeetOnce`, for any
shapes, positions, boxes and hash function. The invariant `HashInv` says of each
cell which handles are in it while the step goes from shape to shape (`Where`), of
each phase of a query what is set in it (`Phase`), and of `met` both bounds at once: it has
all that share a cell done so far, and nobody who shares none
(`MovingMet`, `MovingOnly`, `StaticMet`, `StaticOnly`); that nobody is met twice is what the
stamps say (`Stamped`, `Once`), unless game code asks in between and takes them off.

**ListsProofs.** Lists: `ListsStayKept`, for lists of any length, any ranks, both kinds of comparator. A walk has passed
only what it goes past (`Walks`). The sort's invariant says that there is an order of all nodes (`Sorts`), cut in
three: what is merged, what of the two runs is left, and what of the pass is left; that each part hangs together by `link` (`Hangs`); and
that the nodes between two multiples of the run length are in order (`RunsSorted`). A node taken from the second run
turns the order between two places (`Turned`). That following `link` reads a part off, and that a run
ends where it does, are functions over places, compared at the least place where they differ (`Least`).

**ConsoleProofs.** Window: `PointerStays`. Input: `NoKeyStaysPressed`, for any keys, events and
bindings; its invariant follows a key-up from SDL's queue to the command it
becomes (`QueueTrue`, `OnItsWay`, `Polled`). LuaStack: `CallsStayRight`, for any number of values
left over; `Framed` says which cells of the frame are known at which step. Files: `SavedIsRead`, an action
property; the invariant says that only the first path is ever written to and has what was put there (`PutThere`), and
that an open on its way along the paths has passed no file that it could have opened (`PassedBy`).
Pools: `PoolsAreHeap`, the refinement of Heap, step by step. A pool's blocks are a doubly linked list, and the
invariant says (`Filled`) that it is one, that no block is in two, and that the pool's sum is that of its blocks' sizes.
What the list holds is what is reached by following `next`, which is a recursive function, and the limit is
checked against a fold; both need induction. The library's induction theorems take an operator, but
that a set of numbers has a least element (`Least`) and a set of finite sets a minimal one (`Smallest`) does not: the
proofs take the least place where two things differ. `ListAdds`, `ListDrops` and `ListSame` say what the
three changes of a list do to it, and `SumIsWeight` that the fold is the cardinality of as many units.
Tables: `TablesStayKept`; a list stays in the order of its names when one is put in (`NamesRise`, `InsertAtIsMoved`), and
what is heard is what is set once both are there (`GainKnown`, `FloatKnown`), and a string is what was last given
(`SettingKnown`). Tokens: `WordsAreTokens`, for texts of any
length and any room. The pointer stands behind word k of the line, and `argv` has the first k words or as many as are
numbered (`StandsBehind`). Lemmas say where in the text each word stands (`Spelled`), that the
tokenizer takes that word and stops behind it (`FacingToken`), and that the buffer's cells, which
are counted as a set, grow by a word and its NUL; behind the last word stands nothing, or what makes
`parse_token` refuse (`SpoiltRefuses`). `PoolsTyped` and `FilesTyped` say that what those two modules keep has its type.

**ResourcesProofs.** Sounds: `SourcesStayOwned`, from who owns which source (`Owners`). Decoders:
`LoadsAlwaysGiveBack`: what a load holds is known from the place in its plan (`Holding`). Fonts: `FontsStayKept`.
The counts alone are not inductive: a pointer that an entity keeps but does not use is counted too
(`Counts`), which of them there can be follows from the renderer (`Pointed`), and what the callbacks of an
operation have still to do, from the operation (`ToDo`, `TextsThere`). Every step moves at most one reference, from
the font an entity has to the one it gets (`Moves`), and lemma `MovesKeeps` shows once what that does to the counts.

**What the proofs changed.** `BeamCurrent` and `Pending` were written as `CASE` with
branches that overlapped: TLC takes the first, the language leaves it open, and the
proofs would not go through until it was said which holds. Some assumptions on constants
were not written down: that the values which stand for nothing (`NONE`) are no
shapes, handles, cells, images or arbiters, nor a renderer of text, and that buffers have a size.
Texels' sizes are powers of two up to one in fixed point, `Powers` (with more rows than that the step would be 0); Fields
says what its tables have in common with the C ones (`Known`, `Shares`), which the proof needs and nobody had
written down: no renderer shares a vector's component with another, and none a name with the common fields. Loops that were folds
(the fields of a table, the chain of a list, the lines of a text, the cells of a buffer) are now written by what they come to, for the
last field that writes to a cell, the n-th node of a chain, or the cells of all words; the runs show that nothing changed.

**Only model-checked.** Liveness (`WalkEnds`, `BufferDrains`, `StopEnds`), which
needs ENABLED and fairness: out of the prover's reach. **Only proved:** `OrderStable` (that a sort for one entity never swaps two
others of one level) and `DrawSafe` (what an entity draws from is loaded), which follow from what is checked. Every safety invariant and action property of the passing runs is proved.

## 5. Where code and comments disagree

* `entity_removed`: the comment in `g_entity_delete` says "remove all handlers, mark
  invalid", and `g_entity_frame` then dispatches a think to that entity, when a think
  of the same walk removed the one the iterator had saved. The think indexes a
  `__data` that is nil, outside any protected call: the Lua panic ends the process.
* `physics_locked`: a touch function that assigns `body` adds and removes in the middle of
  `cpSpaceStep`; Chipmunk asserts that this never happens.
* `lua_stack`: `g_call_cmd` (`g_main.c:127`) takes a value from the stack after a call that has left
  none; so does `g_physics_touch` (`g_physics.c:304`) after a function that failed, and `g_init`
  (`g_main.c:773`) when main.lua fails or returns nothing. `lua_settop` asserts that nobody does
  (`src/3rd/lua/lapi.c:173`). One below its base, the next command calls its own name. In the
  other direction, an entity without a think function leaves a value in every frame it is due.

What the models show and no comment contradicts: a signal between the keyboard's init
and the reading of `config.cfg` loses every saved setting (`lost`); the test
in `g_entity_remove_attachment` is the wrong way round, so attachers of a removed
entity keep their pointer (hence `Careful`); an unclosed quote in a value damages the
values after it that hold a semicolon (`Survives`).

* Fonts: the callback of a text's font clears the name before it reads it. A second font
  given to a text, or a size, leaves it without any (`TextUnload`); so does `ent.render`
  when both font and size were set before, for it runs the callback twice.
* Fonts: a line font loaded for an entity that has no text yet is held by nobody and
  loaded again, so its count never comes back to 0 (`ReferencesHeld` is `>=` there); a
  text set to nil stays `render_valid` and NULL is drawn, which `r_linefont.h:39`
  declares non-null (`DrawsLoaded` asks tidy game code).
* Fonts: a TrueType file that cannot be read is closed twice, and SGLIB asserts
  (`TextBroken`).
* Sounds: `snd_load` makes the new sound point at the list and not the list at the
  sound (`Linked`), so no sound is ever found by `snd_unload` or freed before the
  pool is. A sound not asked to loop may loop: `sound.looping` is read uninitialized.
  No property keeps either: there is nothing the code promises and holds.
* Decoders: a flac that was loaded keeps its file open; an ogg that cannot be opened and a flac without a
  decoder lose theirs; an OpenAL buffer is never deleted on an error path. A texture whose
  structure cannot be allocated (`r_texture.c:122`) and a sound whose last decoder failed half-way
  (`snd.c:360`) free their data twice. `LoadsGiveBack` lists all of them, and every other path gives all back.
* Engine: `seta`, registered as "set with CVAR_FL_SAVE" (`cmdbuf.c:293`), leaves the flags
  of a variable that exists as they are (`Seta`), so its value is not saved. A bind longer than `fs_printf`'s 512 bytes
  (`fs_helpers.c:161`) is cut, loses its quote and its newline and swallows the line behind it. `write` may fail, or write half a line,
  and nobody looks; an open that fails may have emptied the file. A variable or a key that begins with z is never written.
  A `config.cfg` longer than the command buffer is read in part. (A file with a character that the buffer refuses would not be read at all, but
  values come from commands only, which cannot hold one.)
* Tokens (`TokensRight`): a command with a comment behind it, a quote that is not closed or a word that is too long is dropped as a whole
  (`LinesOf`, `spoilt`), whatever stood in front of it (`Refused`); characters that are not ASCII separate bare words, since
  `char` is signed.
* Files: when what `open` has opened is no regular file, or no file structure is left,
  `fs_open` goes on to the next path without closing the descriptor (`LeavesOpen`).
* Input: a key released while the window is without focus never sends its key-up command
  (`excused`), and the game goes on as if it were down; nor does one whose text the command buffer has no room for.
* Drawing: a scissor that no later entity switches off clips the rest of the frame and the `glClear` of
  the next (`spilt`). A texture deleted while bound is unbound by OpenGL and not in the engine's copy; when its name is
  handed out again at once, the new picture is loaded into whatever is bound, the default texture (`mixed`).
* Beams: a texture given to a line does not compute its geometry (`late`); one computed by a field's callback at
  another place is drawn there when the line goes back to where it was drawn last (`reckoned`). The name of the texture is
  pushed into `__data` from memory that may be another's by then.
* Fields: a component that is in `__data` hides a vector assigned later, while the entity has no renderer that
  has them (`Shadowed`); common fields go back to what they were before there was a renderer when it
  changes (`reverts`).
* Window: a driver without a list of modes and a custom height of 0 divide by 0 (`video_sdl.c:210`,
  "killed"). `video_fullscreen` is toggled even when SDL does not. After the window shrinks the pointer
  is outside it until it moves (`shrunk`).
* Glyphs: a line font whose sprite an entity has loaded has no coordinates and reads through NULL (`r_linefont.c:148`,
  `:180`); one whose texture is loaded already searches and frees a picture nobody has filled in
  (`r_texture.c:64`), and a sprite that a font has loaded first is drawn by its characters
  (`first`). The first loops that look for a top and a bottom only leave their inner loop, so every character has the height of
  the picture; a character that touches the right edge keeps a right side of 0, and a negative width. `frames_coords` is
  never freed.
* Texels: `gl_texture.c:75` tests the flag `GL_TEX_FL_NOPICMIP` itself, so `gl_picmip` never applies. A picture that is
  larger than the largest texture and not scaled is written past the end of the new one ("spilt"). One of a single row
  has the row behind it read, and not used (`image.c:282`). A picture of 32 rows or less is scaled to 64, so that two or more rows repeat its last one; they are all written to
  one place (`image.c:361`), and the rows of the texture behind it keep what the memory held. With 32768 rows or columns and more the
  fixed point overflows, and rows in front of the picture are read ("wild").
* Contacts: `cpSpace.c:716` pushes a new buffer when six contacts would not fit, and `nextContactPoint` hands out a seventh place
  once six are counted (`cpCollision.c:118`): two polygons that have seven or more points in each other write it, into the place of the next
  pair, or behind a buffer of which exactly six places were left ("overrun").
* Tables: with no room for its variable, `snd_init` writes through NULL. `s_volume` may be set by a file beyond its limits; the
  string keeps what was set, and what is heard does not (`VolumeHeard`).
* SpaceHash: a point query made inside a step increments the hash's stamp, and the pairs that shape has met already
  are met again (`nested`), against `cpSpaceHash.h`, "Query stamp. Used to make sure two objects aren't
  identified twice in the same query."; the pair is then solved twice (`BeginsOnce`). A static
  entity moved inside a touch takes the chain of the query under way apart (`"lost"`).
* Motion: a body is made at 0 with mass 0 and nobody tells it the fields, which are lost at the end of the next
  frame; unless a common field is assigned after `body`, gravity makes its velocity no number (`light`).
  A common field assigned inside a touch overwrites the body's velocity with that of the last frame. Static
  bodies are moved and fall like others, and their boxes stay behind (`drifted`).
* Shapes: a concave polygon, or one wound the wrong way, ends the program by an assertion (`cpPolyShape.c:197`), with the old body gone and
  both copies allocated; without memory for the body's data `g_physics_new_obj` returns (`g_physics.c:193`) and its caller writes through NULL
  (`g_physics.c:456`-`458`). A polygon's vertices are pushed (`g_physics_polygon.c:40`) and never popped, so every polygon of a table leaves a value
  in the frame of `__newindex`. Lua guarantees it 20; a body of some eighteen polygons goes beyond, which `api_incr_top`
  asserts nobody does (`src/3rd/lua/lapi.c:45`) and, without Lua's assertions, nobody notices (`Overrun`).
* Fade: `alpha_end` assigned without `length` is reached at once when the time of the last fade is over, and `length`
  assigned alone begins from the alpha at which `alpha_end` was assigned, not from that of now (`steady`). A `length` of 0 or less
  is never drawn, so the think at its end never comes. `sys_get_time` tests whether the clock went back and then adds the
  difference in any case (`sys_unix.c:60`-`66`).

## 6. What is planned

Nothing of the plan is left: what the runs check as safety is proved, and liveness stays with TLC.

Of the C code in the repository, the engine's own files are a fifth; the rest is
Lua twice (once as LuaJIT, which the default build leaves out), Chipmunk, SGLIB and headers. The modules cover
more than a third of the engine's own, and of the libraries what the engine's
correctness hangs on. A language implementation would be a project of its own.
