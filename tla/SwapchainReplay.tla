-------------------------- MODULE SwapchainReplay --------------------------
(***************************************************************************)
(* One virtual swapchain of lava-replay. The trace names images by the     *)
(* indices the application got when it was captured ("stored" images); the *)
(* driver hands out its own ("real") images in its own order. The          *)
(* application renders into virtual images, one per stored image, and a    *)
(* present is preceded by a copy of the virtual image to the real image    *)
(* that was acquired for it (hardcode_read.cpp). Screenshots are taken     *)
(* from the images as frames complete (replay_screenshot.cpp).             *)
(*                                                                         *)
(* The GPU runs the submissions of the one queue in order: "gpu" holds the *)
(* copies and semaphore waits that have been submitted and have not run.   *)
(* What the application renders is a number, so a copy carries the number  *)
(* its virtual image had when the copy was submitted. A screenshot makes   *)
(* the replay thread wait for the queue; that the submissions before it    *)
(* have then run is left out, which only adds behaviours.                  *)
(***************************************************************************)
EXTENDS Integers, Sequences

CONSTANTS Stored,       \* number of images of the captured swapchain
          Real,         \* number of images of the replay swapchain
          BoundaryImages, \* stored images (or NoImage, -1) that frame boundaries name
          ShotSpecs,    \* what the user may select: sequences of [first, last]
          MaxFrame,     \* bound on the frames of a behaviour
          MaxRender     \* bound on what the application renders

VARIABLES noscreen,       \* replay without a window
          swapchain,      \* the fields of trackedswapchain_replay
          held,           \* stored images the application has acquired
          content,        \* content[i]: what the virtual image i shows
          rendered,       \* number of renderings so far
          gpu,            \* submitted work that has not run
          fence,          \* fence[i]: virtual_fences[i] is signalled
          signalled,      \* signalled[r]: virtual_semaphores[r] is signalled
          image,          \* image[r]: where the real image r is
          boundaries,     \* trackedqueue::replay_frame_boundaries left over
          shots,          \* the screenshot files: frame -> content
          ranges,         \* replay_screenshot_handler::mRanges
          range,          \* replay_screenshot_handler::mCurrentRange
          frame,          \* lava_reader::global_frame
          ended,          \* ended[f]: what the application ended frame f with
          odd             \* what happened that replay is known not to handle

swapvars == <<noscreen, swapchain, held, content, rendered, gpu, fence, signalled,
              image, boundaries, shots, ranges, range, frame, ended, odd>>

StoredImages == 0 .. Stored - 1
RealImages == 0 .. (IF noscreen THEN Stored ELSE Real) - 1
NoImage == -1            \* CONTAINER_INVALID_INDEX, CONTAINER_NULL_VALUE

ASSUME SwapAssumption ==
    /\ Stored \in Nat \ {0} /\ Real \in Nat \ {0} /\ MaxFrame \in Nat
    /\ BoundaryImages \subseteq StoredImages \cup {NoImage}
    /\ ShotSpecs \subseteq Seq([first : Nat, last : Int])

-----------------------------------------------------------------------------
(* Screenshots.                                                            *)

(* parse_replay_screenshot_ranges accepts ascending ranges that do not     *)
(* overlap                                                                 *)
parse_replay_screenshot_rangesUnordered(spec) ==
    spec # <<>> /\ \A k \in DOMAIN spec : spec[k].first <= spec[k].last
parse_replay_screenshot_ranges(spec) ==
    /\ spec # <<>>
    /\ \A k \in DOMAIN spec : spec[k].first <= spec[k].last
    /\ \A k \in 1 .. Len(spec) - 1 : spec[k].last < spec[k + 1].first

Selected(f) == \E k \in DOMAIN ranges : ranges[k].first <= f /\ f <= ranges[k].last

(* is_frame_selected: mCurrentRange moves past the ranges that end before  *)
(* the frame and never back                                                *)
NextRange(f) ==
    CHOOSE k \in range .. Len(ranges) + 1 :
        /\ k <= Len(ranges) => ranges[k].last >= f
        /\ \A j \in range .. k - 1 : ranges[j].last < f

is_frame_selected(f) ==
    LET k == NextRange(f)
    IN k <= Len(ranges) /\ ranges[k].first <= f /\ f <= ranges[k].last

(* replay_screenshot_handler::capture writes one file per frame; a second  *)
(* capture of the same frame overwrites the first                          *)
capture(files, f, what) == IF is_frame_selected(f) THEN [files EXCEPT ![f] = what] ELSE files

(* replay_capture_frame_boundary_image, for the image of a boundary        *)
replay_capture_frame_boundary_image(files, f, i) ==
    IF i = NoImage THEN files ELSE capture(files, f, content[i])

(* replay_process_queued_frame_boundaries, for boundaries that end no      *)
(* frame themselves                                                        *)
CaptureAll(files, f, images) ==
    LET after[k \in 0 .. Len(images)] ==
            IF k = 0 THEN files ELSE replay_capture_frame_boundary_image(after[k - 1], f, images[k])
    IN after[Len(images)]

-----------------------------------------------------------------------------
(* The GPU and the presentation engine: external to lavatube. A copy       *)
(* signals the fence of its stored image and the semaphore of its real     *)
(* image. A real image is free, acquired by the application, queued for    *)
(* presentation, or shown.                                                 *)

Copy(i, r) == [kind |-> "copy", stored |-> i, real |-> r, what |-> content[i]]
Wait(r) == [kind |-> "wait", stored |-> NoImage, real |-> r, what |-> 0]

Free == [at |-> "free", shows |-> 0, wanted |-> 0]

GpuStep ==
    LET work == Head(gpu)
    IN /\ gpu # <<>>
       /\ work.kind = "wait" => signalled[work.real]
       /\ gpu' = Tail(gpu)
       /\ signalled' = [signalled EXCEPT ![work.real] = work.kind = "copy"]
       /\ IF work.kind = "copy"
          THEN /\ fence' = [fence EXCEPT ![work.stored] = TRUE]
               /\ image' = [image EXCEPT ![work.real].shows = work.what]
          ELSE UNCHANGED <<fence, image>>
       /\ UNCHANGED <<noscreen, ranges, swapchain, held, content, rendered, boundaries, shots,
                      range, frame, ended, odd>>

(* The presentation engine waits for the semaphore, then shows the image   *)
ShowImage(r) ==
    /\ image[r].at = "queued" /\ signalled[r]
    /\ image' = [image EXCEPT ![r].at = "shown"]
    /\ signalled' = [signalled EXCEPT ![r] = FALSE]
    /\ UNCHANGED <<noscreen, ranges, swapchain, held, content, rendered, gpu, fence,
                   boundaries, shots, range, frame, ended, odd>>

ReleaseImage(r) ==
    /\ image[r].at = "shown"
    /\ image' = [image EXCEPT ![r] = Free]
    /\ UNCHANGED <<noscreen, ranges, swapchain, held, content, rendered, gpu, fence, signalled,
                   boundaries, shots, range, frame, ended, odd>>

-----------------------------------------------------------------------------
(* retrace_vkGetSwapchainImagesKHR: the first call makes the virtual       *)
(* images, fences, semaphores and command buffers; later calls keep them   *)
Fresh ==
    [state |-> "live", next_stored_image |-> 0, next_swapchain_image |-> 0,
     acquired_real_image_indices |-> [i \in StoredImages |-> NoImage],
     inflight |-> [i \in StoredImages |-> FALSE]]

SwapchainImages == IF swapchain.state = "live" THEN swapchain ELSE Fresh

retrace_vkGetSwapchainImagesKHR ==
    /\ swapchain.state \in {"new", "live"}
    /\ swapchain' = SwapchainImages
    /\ UNCHANGED <<noscreen, ranges, held, content, rendered, gpu, fence, signalled, image,
                   boundaries, shots, range, frame, ended, odd>>

(* vkAcquireNextImageKHR and vkAcquireNextImage2KHR: a real image is       *)
(* acquired if one was at capture. The stored index in the trace replaces  *)
(* the one the driver returned, and without a window it is the real one.   *)
callback_vkAcquireNextImageKHRLatest(i, r) ==
    [swapchain EXCEPT !.next_swapchain_image = r, !.next_stored_image = i,
                      !.acquired_real_image_indices = [j \in StoredImages |-> r]]
callback_vkAcquireNextImageKHRByReal(i, r) ==
    [swapchain EXCEPT !.next_swapchain_image = r, !.next_stored_image = i,
                      !.acquired_real_image_indices[r] = r]
callback_vkAcquireNextImageKHR(i, r) ==
    [swapchain EXCEPT !.next_swapchain_image = r, !.next_stored_image = i,
                      !.acquired_real_image_indices[i] = r]

AcquireNextImage(i, r) ==
    /\ swapchain.state = "live" /\ i \notin held
    /\ IF noscreen THEN r = i ELSE image[r].at = "free"
    /\ swapchain' = callback_vkAcquireNextImageKHR(i, r)
    /\ held' = held \cup {i}
    /\ image' = IF noscreen THEN image ELSE [image EXCEPT ![r].at = "acquired"]
    /\ odd' = IF held = {} THEN odd ELSE odd \cup {"several"}
    /\ UNCHANGED <<noscreen, ranges, content, rendered, gpu, fence, signalled, boundaries, shots,
                   range, frame, ended>>

(* An acquire that failed at capture is skipped, but the index next to it  *)
(* in the trace is still stored                                            *)
AcquireFailed(i) ==
    /\ swapchain.state = "live"
    /\ swapchain' = [swapchain EXCEPT !.next_stored_image = i]
    /\ odd' = odd \cup {"failed"}
    /\ UNCHANGED <<noscreen, ranges, held, content, rendered, gpu, fence, signalled, image,
                   boundaries, shots, range, frame, ended>>

(* The application submits rendering to a virtual image                    *)
Render(i) ==
    /\ swapchain.state = "live" /\ rendered < MaxRender /\ i \in held
    /\ rendered' = rendered + 1
    /\ content' = [content EXCEPT ![i] = rendered + 1]
    /\ UNCHANGED <<noscreen, ranges, swapchain, held, gpu, fence, signalled, image, boundaries,
                   shots, range, frame, ended, odd>>

-----------------------------------------------------------------------------
(* A submit or sparse bind with a VkFrameBoundaryEXT, and                  *)
(* vkFrameBoundaryANDROID, end a frame too and are captured from the image *)
(* they name                                                               *)
EndFrameWith(i, f) == ended' = [ended EXCEPT ![f] = IF i = NoImage THEN NoImage ELSE content[i]]

SubmitFrameBoundary(i) ==
    /\ swapchain.state = "live" /\ frame < MaxFrame
    /\ frame' = frame + 1
    /\ shots' = LET before == IF frame = 0 THEN shots ELSE CaptureAll(shots, frame - 1, boundaries)
                IN replay_capture_frame_boundary_image(before, frame, i)
    /\ range' = NextRange(frame)
    /\ boundaries' = <<>>
    /\ EndFrameWith(i, frame)
    /\ UNCHANGED <<noscreen, ranges, swapchain, held, content, rendered, gpu, fence, signalled,
                   image, odd>>

replay_process_android_frame_boundary(i) ==
    /\ swapchain.state = "live" /\ frame < MaxFrame
    /\ frame' = frame + 1
    /\ shots' = replay_capture_frame_boundary_image(shots, frame, i)
    /\ range' = NextRange(frame)
    /\ EndFrameWith(i, frame)
    /\ UNCHANGED <<noscreen, ranges, swapchain, held, content, rendered, gpu, fence, signalled,
                   image, boundaries, odd>>

-----------------------------------------------------------------------------
(* replay_pre_vkQueuePresentKHR for the stored image i: it waits until the *)
(* copy that was last submitted with the command buffer and the fence of   *)
(* the stored image has run, and submits a copy to the real image that was *)
(* acquired for it.                                                        *)
FenceWaitOver(i) == swapchain.inflight[i] => fence[i]

UseUnmarked(i) == swapchain
Use(i) == [swapchain EXCEPT !.inflight[i] = TRUE]

(* replay_callback_vkQueuePresentKHR: the screenshot of the frame, from    *)
(* the images of its boundaries, else (with a window) from the virtual     *)
(* image acquired last, else from the real image that was copied to        *)
PresentShots(i, b) ==
    LET images == boundaries \o b
        presented == IF noscreen THEN content[i] ELSE content[swapchain.next_stored_image]
    IN IF \E k \in DOMAIN images : images[k] # NoImage THEN CaptureAll(shots, frame, images)
       ELSE capture(shots, frame, presented)

(* What every present does after the driver returned, whatever it returned *)
Presented(i, b) ==
    /\ held' = held \ {i}
    /\ frame' = frame + 1
    /\ shots' = PresentShots(i, b)
    /\ range' = NextRange(frame)
    /\ EndFrameWith(IF b = <<>> \/ b = <<NoImage>> THEN i ELSE b[1], frame)

(* The present of the application, with b the frame boundary in its        *)
(* chain, if any. With a window the real image goes to the presentation    *)
(* engine; without one, cleanup_sync submits a wait for the semaphore.     *)
QueuePresent(i, b) ==
    LET r == swapchain.acquired_real_image_indices[i]
    IN /\ swapchain.state = "live" /\ i \in held /\ frame < MaxFrame
       /\ FenceWaitOver(i)
       /\ swapchain' = Use(i)
       /\ fence' = [fence EXCEPT ![i] = FALSE]
       /\ gpu' = gpu \o (IF noscreen THEN <<Copy(i, r), Wait(r)>> ELSE <<Copy(i, r)>>)
       /\ image' = [image EXCEPT ![r].wanted = content[i],
                                 ![r].at = IF noscreen THEN "free" ELSE "queued"]
       /\ Presented(i, b)
       /\ boundaries' = <<>>
       /\ UNCHANGED <<noscreen, ranges, content, rendered, signalled, odd>>

(* The driver reports VK_SUBOPTIMAL_KHR or VK_ERROR_OUT_OF_DATE_KHR: the   *)
(* wait is undone, remake_swapchain waits for the queue and makes new real *)
(* images and semaphores, and the present is issued again. By then its     *)
(* image index is the real one, and it is looked up as a stored one; the   *)
(* asserts on that lookup end the replay.                                  *)
ReissuedPresent(i, r, b) ==
    LET again == swapchain.acquired_real_image_indices[r]
        idle == [k \in RealImages |-> Free]
    IN IF r \in StoredImages /\ again # NoImage
       THEN /\ swapchain' = [Use(i) EXCEPT !.inflight[r] = TRUE]
            /\ fence' = [k \in StoredImages |-> IF k = r THEN FALSE
                                                ELSE k = i \/ swapchain.inflight[k]]
            /\ gpu' = <<Copy(r, again)>>
            /\ image' = [idle EXCEPT ![again].at = "queued", ![again].wanted = content[i]]
            /\ boundaries' = b
       ELSE /\ swapchain' = [swapchain EXCEPT !.state = "asserted"]
            /\ image' = idle
            /\ gpu' = <<>>
            /\ UNCHANGED <<fence, boundaries>>

QueuePresentOutOfDate(i, b) ==
    LET r == swapchain.acquired_real_image_indices[i]
    IN /\ ~noscreen
       /\ swapchain.state = "live" /\ i \in held /\ frame < MaxFrame
       /\ FenceWaitOver(i)
       /\ Presented(i, b)
       /\ signalled' = [k \in RealImages |-> FALSE]
       /\ ReissuedPresent(i, r, b)
       /\ odd' = odd \cup {"remade"}
       /\ UNCHANGED <<noscreen, ranges, content, rendered>>

(* replay_pre_vkDestroySwapchainKHR waits for the fences of the images in  *)
(* use, then destroys what the swapchain owns                              *)
DestroySwapchain ==
    /\ swapchain.state = "live" /\ held = {}
    /\ \A i \in StoredImages : FenceWaitOver(i)
    /\ swapchain' = [swapchain EXCEPT !.state = "destroyed"]
    /\ UNCHANGED <<noscreen, ranges, held, content, rendered, gpu, fence, signalled, image,
                   boundaries, shots, range, frame, ended, odd>>

-----------------------------------------------------------------------------
Nothing == -2     \* no screenshot file

SwapInit ==
    /\ noscreen \in BOOLEAN
    /\ ranges \in {spec \in ShotSpecs : parse_replay_screenshot_ranges(spec)}
    /\ swapchain = [Fresh EXCEPT !.state = "new"]
    /\ held = {} /\ rendered = 0 /\ gpu = <<>> /\ boundaries = <<>>
    /\ content = [i \in StoredImages |-> 0]
    /\ fence = [i \in StoredImages |-> FALSE]
    /\ signalled = [r \in RealImages |-> FALSE]
    /\ image = [r \in RealImages |-> Free]
    /\ shots = [f \in 0 .. MaxFrame - 1 |-> Nothing]
    /\ range = 1 /\ frame = 0 /\ odd = {}
    /\ ended = [f \in 0 .. MaxFrame - 1 |-> NoImage]

Boundaries == {<<>>} \cup {<<i>> : i \in BoundaryImages}

SwapNext ==
    \/ GpuStep
    \/ \E r \in RealImages : ShowImage(r) \/ ReleaseImage(r)
    \/ retrace_vkGetSwapchainImagesKHR
    \/ \E i \in StoredImages, r \in RealImages : AcquireNextImage(i, r)
    \/ \E i \in StoredImages : AcquireFailed(i) \/ Render(i)
    \/ \E i \in BoundaryImages :
          SubmitFrameBoundary(i) \/ replay_process_android_frame_boundary(i)
    \/ \E i \in StoredImages, b \in Boundaries :
          QueuePresent(i, b) \/ QueuePresentOutOfDate(i, b)
    \/ DestroySwapchain

SwapSpec == SwapInit /\ [][SwapNext]_swapvars

-----------------------------------------------------------------------------
(* The indices replay keeps for a live swapchain are those of images that  *)
(* exist, and every image the application holds has a real image           *)
(* (trackedswapchain_replay, the asserts on acquired_real_image_indices).  *)
SwapTypeOK ==
    /\ held \subseteq StoredImages
    /\ swapchain.next_stored_image \in StoredImages
    /\ swapchain.next_swapchain_image \in RealImages
    /\ \A i \in StoredImages : swapchain.acquired_real_image_indices[i] \in RealImages \cup {NoImage}
    /\ \A i \in held : swapchain.acquired_real_image_indices[i] # NoImage
    /\ range \in 1 .. Len(ranges) + 1

(* The command buffer and the fence of a stored image are never submitted  *)
(* again while the copy submitted with them before has not run, and not    *)
(* destroyed while it has not (the fence wait of                           *)
(* replay_pre_vkQueuePresentKHR and replay_pre_vkDestroySwapchainKHR).     *)
CopiesNotReused ==
    /\ \A j, k \in DOMAIN gpu :
          gpu[j].kind = "copy" /\ gpu[k].kind = "copy" /\ gpu[j].stored = gpu[k].stored => j = k
    /\ swapchain.state = "destroyed" => \A k \in DOMAIN gpu : gpu[k].kind # "copy"

(* While no swapchain had to be remade, a copy signals the semaphore of    *)
(* its real image only when that semaphore has been waited for since it    *)
(* was signalled: "Reacquiring a real image guarantees that presentation   *)
(* consumed its previous wait semaphore".                                  *)
SemaphoreConsumed ==
    gpu # <<>> /\ Head(gpu).kind = "copy" /\ "remade" \notin odd => ~signalled[Head(gpu).real]

(* While no swapchain had to be remade, the screen shows in a real image   *)
(* what the application had rendered into the stored image it presented,   *)
(* whichever real image the driver handed out for it.                      *)
ShowsPresented ==
    "remade" \notin odd => \A r \in RealImages : image[r].at = "shown" => image[r].shows = image[r].wanted

(* The virtual swapchain presents what the application presented, with     *)
(* semaphores, fences and command buffers that are free when it uses them  *)
(* (replay_pre_vkQueuePresentKHR, callback_vkAcquireNextImageKHR).         *)
PresentsSound == SwapTypeOK /\ CopiesNotReused /\ SemaphoreConsumed /\ ShowsPresented

(* The screenshots are those of the selected frames, each showing what its *)
(* frame ended with. With a window this needs an application that holds    *)
(* one image at a time and whose acquires succeed.                         *)
ScreenshotsExact ==
    odd \subseteq (IF noscreen THEN {"several", "failed"} ELSE {}) =>
        \A f \in 0 .. frame - 1 :
            IF Selected(f) /\ ended[f] # NoImage THEN shots[f] = ended[f] ELSE shots[f] = Nothing
=============================================================================
