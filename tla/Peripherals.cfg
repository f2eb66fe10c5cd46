SPECIFICATION Spec
INVARIANTS InputKept SerialKept FloppyExact FramesKept SoundServed
