SPECIFICATION Spec
CONSTANTS
    a = a
    b = b
    first = first
    None = None
PROPERTIES
    DesktopSettles
    LaunchesSettle
    PhoneSettles
