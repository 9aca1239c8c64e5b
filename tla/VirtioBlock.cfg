SPECIFICATION Spec
CONSTANTS
    Sectors = {s1, s2}
    Values = {v1, v2}
    IDX = 8
    QueueSizes = {0, 4, 6, 256, 512}
    VIRTIO_PAGE_SIZE = 4096
    QUEUE_MEMORY = 16384
    None = None
INVARIANTS DeviceSeesTheRequest QueueFits
PROPERTIES RequestReturns IsBlockDevice
