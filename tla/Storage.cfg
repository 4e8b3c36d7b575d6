\* A tool and a library to copy, images that do and do not stand for the directory, and a
\* registry that two tags of one name fill.
CONSTANTS
    Names = {"", "a"}
    Tags = {"", "v"}
    Dirs = {"rootfs", "elsewhere"}
    Rootfs = "rootfs"
    NFiles = 2
    Tools = {1}
    Cap = 2
SPECIFICATION Spec
INVARIANTS
    RootfsComplete
    IsolateAlone
PROPERTY
    ImplementsMap
